---------------------------- MODULE Spec2Model ----------------------------
(***************************************************************************)
(* A model of debian_gaming_setup.py (class GamingSetup): the command      *)
(* executor run_command, the virtualization and GPU detectors, and the     *)
(* main flow run().                                                        *)
(*                                                                         *)
(* Text.  A Python str is modelled as a sequence of atoms.  Text that the  *)
(* program searches, splits, strips or lower-cases is held character by    *)
(* character (every atom is a one-character string), so that `in`,         *)
(* lower(), strip() and split() are computed as Python computes them.      *)
(* Text that is only carried around (a command description, a captured     *)
(* stdout) may hold longer atoms.  The empty str is << >>.                 *)
(***************************************************************************)
EXTENDS Integers, Sequences, FiniteSets, TLC

VARIABLES
    config,             \* self.config (InstallationConfig)
    failed_operations,  \* self.failed_operations, the failure ledger
    hardware_info,      \* self.hardware_info (gpu_vendor, vm_type)
    effects,            \* every external effect so far, in order
    host,               \* what each external tool does on this machine
    call,               \* the last operation called and what it returned
    ncalls,             \* number of operations called so far
    pc,                 \* the step run() is about to take, or how it ended
    system_info,        \* self.system_info (distro_name, distro_version)
    installation_state, \* self.installation_state, a dict
    state_file,         \* STATE_FILE on disk
    gpu_type,           \* the local gpu_type of run()
    faults              \* what went wrong in run() so far: [step, at, what, hit] each

\* the variables of run() that the single operations do not touch
runvars == <<pc, system_info, installation_state, state_file, gpu_type, faults>>

vars == <<config, failed_operations, hardware_info, effects, host, call, ncalls,
          pc, system_info, installation_state, state_file, gpu_type, faults>>

-----------------------------------------------------------------------------
(* Bounds of the model *)

\* how many operations a harness specification calls in one behaviour
MaxCalls == 2

\* how many lines an lspci listing has at most
MaxLines == 2

\* in how many steps of one run of run() something goes wrong
MaxFaults == 1

\* unrecognised lines an operator types before an answer
MaxReprompts == 2

\* the readings the system clock can show, 1..MaxInstant
MaxInstant == 3

-----------------------------------------------------------------------------
(* Python values *)

\* Python's None, for Optional[str]: an atom no str contains
None == << "None" >>

\* the truth value Python gives an Optional[str]: None and "" are false
Truthy(s) == s # None /\ s # << >>

\* the Python exception classes that subprocess.run and input() raise here;
\* KeyboardInterrupt derives from BaseException, not from Exception
IsException(e) ==
    e \in {"TimeoutExpired", "CalledProcessError", "FileNotFoundError", "PermissionError",
           "EOFError", "URLError"}

-----------------------------------------------------------------------------
(* Python str operations *)

\* needle in hay
Contains(hay, needle) ==
    \E i \in 0..(Len(hay) - Len(needle)) :
        SubSeq(hay, i + 1, i + Len(needle)) = needle

\* any(k in text for k in keywords)
ContainsAny(text, keywords) == \E k \in keywords : Contains(text, k)

\* the lower-case letter of every upper-case letter
LowerOf ==
    [c \in {"A","B","C","D","E","F","G","H","I","J","K","L","M",
            "N","O","P","Q","R","S","T","U","V","W","X","Y","Z"} |->
        CASE c = "A" -> "a" [] c = "B" -> "b" [] c = "C" -> "c" [] c = "D" -> "d"
          [] c = "E" -> "e" [] c = "F" -> "f" [] c = "G" -> "g" [] c = "H" -> "h"
          [] c = "I" -> "i" [] c = "J" -> "j" [] c = "K" -> "k" [] c = "L" -> "l"
          [] c = "M" -> "m" [] c = "N" -> "n" [] c = "O" -> "o" [] c = "P" -> "p"
          [] c = "Q" -> "q" [] c = "R" -> "r" [] c = "S" -> "s" [] c = "T" -> "t"
          [] c = "U" -> "u" [] c = "V" -> "v" [] c = "W" -> "w" [] c = "X" -> "x"
          [] c = "Y" -> "y" [] c = "Z" -> "z"]

\* c.lower() for one character
LowerChar(c) == IF c \in DOMAIN LowerOf THEN LowerOf[c] ELSE c

\* s.lower()
RECURSIVE Lower(_)
Lower(s) ==
    IF s = << >> THEN << >>
    ELSE IF Len(s) = 1 THEN <<LowerChar(s[1])>>
    ELSE Lower(SubSeq(s, 1, Len(s) \div 2)) \o Lower(SubSeq(s, Len(s) \div 2 + 1, Len(s)))

IsSpace(c) == c \in {" ", "\n", "\t", "\r"}

\* s.strip()
Strip(s) ==
    LET keep == {i \in 1..Len(s) : ~IsSpace(s[i])} IN
    IF keep = {} THEN << >>
    ELSE SubSeq(s, CHOOSE i \in keep : \A j \in keep : i <= j,
                   CHOOSE i \in keep : \A j \in keep : j <= i)

\* s.split('\n'): the list of lines, [''] for the empty str
RECURSIVE SplitLines(_)
SplitLines(s) ==
    LET nl == {i \in 1..Len(s) : s[i] = "\n"} IN
    IF nl = {} THEN <<s>>
    ELSE LET k == CHOOSE i \in nl : \A j \in nl : i <= j IN
         <<SubSeq(s, 1, k - 1)>> \o SplitLines(SubSeq(s, k + 1, Len(s)))

\* ' '.join(lines)
RECURSIVE JoinSpace(_)
JoinSpace(lines) ==
    IF lines = << >> THEN << >>
    ELSE IF Len(lines) = 1 THEN lines[1]
    ELSE lines[1] \o <<" ">> \o JoinSpace(Tail(lines))

\* a filter that keeps every line
KeepEveryLine(lines, keywords) == lines

\* [x for x in lines if keep(x)]
RECURSIVE FilterLines(_, _)
FilterLines(lines, keywords) ==
    IF lines = << >> THEN << >>
    ELSE IF ContainsAny(lines[1], keywords)
         THEN <<lines[1]>> \o FilterLines(Tail(lines), keywords)
         ELSE FilterLines(Tail(lines), keywords)

-----------------------------------------------------------------------------
(* subprocess.run: what the operating system does with a command is `proc`, *)
(* one of                                                                   *)
(*   [kind |-> "exit", code, stdout, stderr]   the process ran and exited   *)
(*   [kind |-> "timeout"]                      the time budget ran out      *)
(*   [kind |-> "nolaunch", err]                the process could not start  *)
(*   [kind |-> "interrupt"]                    the operator pressed Ctrl-C  *)

ExitProc(code, out, err) ==
    [kind |-> "exit", code |-> code, stdout |-> out, stderr |-> err, err_class |-> "none"]

TimeoutProc ==
    [kind |-> "timeout", code |-> 0, stdout |-> << >>, stderr |-> << >>, err_class |-> "none"]

NoLaunchProc(e) ==
    [kind |-> "nolaunch", code |-> 0, stdout |-> << >>, stderr |-> << >>, err_class |-> e]

InterruptProc ==
    [kind |-> "interrupt", code |-> 0, stdout |-> << >>, stderr |-> << >>, err_class |-> "none"]

\* subprocess.run(cmd, check=check, capture_output=True, text=True, timeout=t):
\* the CompletedProcess, or the exception raised (exc # "none")
subprocess_run(proc, check) ==
    CASE proc.kind = "timeout" ->
            [exc |-> "TimeoutExpired", returncode |-> 0, stdout |-> << >>,
             stderr |-> << >>, str |-> <<"timed out">>]
      [] proc.kind = "nolaunch" ->
            [exc |-> proc.err_class, returncode |-> 0, stdout |-> << >>,
             stderr |-> << >>, str |-> <<proc.err_class>>]
      [] proc.kind = "interrupt" ->
            [exc |-> "KeyboardInterrupt", returncode |-> 0, stdout |-> << >>,
             stderr |-> << >>, str |-> << >>]
      [] proc.kind = "exit" /\ check /\ proc.code # 0 ->
            [exc |-> "CalledProcessError", returncode |-> proc.code,
             stdout |-> proc.stdout, stderr |-> proc.stderr, str |-> <<"non-zero exit">>]
      [] OTHER ->
            [exc |-> "none", returncode |-> proc.code, stdout |-> proc.stdout,
             stderr |-> proc.stderr, str |-> << >>]

-----------------------------------------------------------------------------
(* GamingSetup.run_command *)

\* one process spawned by run_command for the command described by d
Spawn(d) == [kind |-> "spawn", who |-> "run_command", what |-> d]

\* the value of a call that returned `ret` and left the ledger `failed`
Returned(ret, failed, spawned) ==
    [raised |-> "none", ret |-> ret, failed_operations |-> failed, spawned |-> spawned]

\* the value of a call that an exception left without returning
Raised(exc, failed, spawned) ==
    [raised |-> exc, ret |-> << >>, failed_operations |-> failed, spawned |-> spawned]

\* a guard that skips the command outside dry-run mode
DryRunGuardInverted(cfg) == ~cfg.dry_run

\* the dry-run guard of run_command
DryRunGuard(cfg) == cfg.dry_run

\* a clause that catches no exception
CatchesNothing(e) == FALSE

\* the `except Exception` clause of run_command catches e
ExceptException(e) == IsException(e)

\* a ledger that keeps only its newest entry
LedgerRestart(failed, msg) == <<msg>>

\* self.failed_operations.append(msg)
LedgerAppend(failed, msg) == Append(failed, msg)

\* run_command(cmd, description, check, timeout) with the ledger `failed`,
\* when the operating system answers `proc`
run_command(cfg, failed, description, check, timeout, proc) ==
    IF DryRunGuard(cfg)
    THEN Returned(<<TRUE, << >>, << >>>>, failed, FALSE)
    ELSE LET r == subprocess_run(proc, check) IN
         CASE r.exc = "none" ->
                 IF r.returncode = 0
                 THEN Returned(<<TRUE, r.stdout, r.stderr>>, failed, TRUE)
                 ELSE Returned(<<FALSE, r.stdout, r.stderr>>, failed, TRUE)
           [] r.exc = "TimeoutExpired" ->
                 LET msg == <<"TIMEOUT: ">> \o description
                            \o <<" (exceeded ", ToString(timeout), " seconds)">>
                 IN  Returned(<<FALSE, << >>, msg>>, LedgerAppend(failed, msg), TRUE)
           [] r.exc = "CalledProcessError" ->
                 LET msg == <<"FAILED: ">> \o description
                 IN  Returned(<<FALSE, r.stdout, r.stderr>>, LedgerAppend(failed, msg), TRUE)
           [] r.exc \notin {"TimeoutExpired", "CalledProcessError"} /\ ExceptException(r.exc) ->
                 LET msg == <<"EXCEPTION: ">> \o description \o <<" - ">> \o r.str
                 IN  Returned(<<FALSE, << >>, r.str>>, LedgerAppend(failed, msg), TRUE)
           [] OTHER -> Raised(r.exc, failed, TRUE)


-----------------------------------------------------------------------------
(* GamingSetup.detect_virtualization.  `h` gives what each external tool  *)
(* does when it is invoked: h.sdv (systemd-detect-virt), h.dmesg,      *)
(* h.lspci_vm (lspci invoked by detect_virtualization), h.lspci_gpu    *)
(* (lspci invoked by detect_gpu) and h.glxinfo, each a proc as above.     *)

\* one invocation of an external tool by a detector
Probe(who, tool) == [kind |-> "probe", who |-> who, what |-> <<tool>>]

\* a clause that catches nothing
ExceptNothing(e) == FALSE

\* the bare `except:` clauses of the detectors catch every exception
BareExcept(e) == TRUE

\* virt_map.get(key, default)
virt_map_get(key, default) ==
    CASE key = <<"v","m","w","a","r","e">> -> <<"V","M","w","a","r","e">>
      [] key = <<"k","v","m">> -> <<"K","V","M">>
      [] key = <<"q","e","m","u">> -> <<"Q","E","M","U">>
      [] key = <<"v","i","r","t","u","a","l","b","o","x">> -> <<"V","i","r","t","u","a","l","B","o","x">>
      [] key = <<"o","r","a","c","l","e">> -> <<"V","i","r","t","u","a","l","B","o","x">>
      [] key = <<"m","i","c","r","o","s","o","f","t">> -> <<"H","y","p","e","r","-","V">>
      [] key = <<"x","e","n">> -> <<"X","e","n">>
      [] key = <<"b","o","c","h","s">> -> <<"B","o","c","h","s">>
      [] key = <<"p","a","r","a","l","l","e","l","s">> -> <<"P","a","r","a","l","l","e","l","s">>
      [] OTHER -> default

\* the value a detection method hands on: a str it returns, None when it
\* falls through to the next method, or the exception that escapes it
MethodResult(ret, raised) == [ret |-> ret, raised |-> raised]

\* Method 1: systemd-detect-virt
virt_method1(h) ==
    LET result == subprocess_run(h.sdv, FALSE) IN
    IF result.exc # "none"
    THEN MethodResult(None, IF BareExcept(result.exc) THEN "none" ELSE result.exc)
    ELSE LET virt_type == Strip(result.stdout) IN
         IF virt_type # << >> /\ virt_type # <<"n","o","n","e">>
         THEN MethodResult(virt_map_get(Lower(virt_type), virt_type), "none")
         ELSE MethodResult(None, "none")

\* Method 2: dmesg
virt_method2(h) ==
    LET result == subprocess_run(h.dmesg, FALSE) IN
    IF result.exc # "none"
    THEN MethodResult(None, IF BareExcept(result.exc) THEN "none" ELSE result.exc)
    ELSE LET dmesg == Lower(result.stdout) IN
         CASE Contains(dmesg, <<"v","m","w","a","r","e">>) -> MethodResult(<<"V","M","w","a","r","e">>, "none")
           [] Contains(dmesg, <<"v","i","r","t","u","a","l","b","o","x">>) -> MethodResult(<<"V","i","r","t","u","a","l","B","o","x">>, "none")
           [] Contains(dmesg, <<"h","y","p","e","r","v","i","s","o","r"," ","d","e","t","e","c","t","e","d">>) -> MethodResult(<<"V","M">>, "none")
           [] OTHER -> MethodResult(None, "none")

\* Method 3: lspci
virt_method3(h) ==
    LET result == subprocess_run(h.lspci_vm, FALSE) IN
    IF result.exc # "none"
    THEN MethodResult(None, IF BareExcept(result.exc) THEN "none" ELSE result.exc)
    ELSE LET lspci == Lower(result.stdout) IN
         CASE Contains(lspci, <<"v","m","w","a","r","e">>) -> MethodResult(<<"V","M","w","a","r","e">>, "none")
           [] Contains(lspci, <<"v","i","r","t","u","a","l","b","o","x">>) -> MethodResult(<<"V","i","r","t","u","a","l","B","o","x">>, "none")
           [] Contains(lspci, <<"q","x","l">>) \/ Contains(lspci, <<"v","i","r","t","i","o">>) ->
                 MethodResult(<<"K","V","M","/","Q","E","M","U">>, "none")
           [] OTHER -> MethodResult(None, "none")

\* no method ends the detection
EndsNever(m) == FALSE

\* a method ended the detection: it returned a str or let an exception escape
Ends(m) == m.ret # None \/ m.raised # "none"

\* detect_virtualization(): [ret, raised, probes], probes being the tools
\* invoked, in order
detect_virtualization(h) ==
    LET p1 == <<Probe("detect_virtualization", "systemd-detect-virt")>>
        p2 == Append(p1, Probe("detect_virtualization", "dmesg"))
        p3 == Append(p2, Probe("detect_virtualization", "lspci"))
        m1 == virt_method1(h)
        m2 == virt_method2(h)
        m3 == virt_method3(h)
    IN  IF Ends(m1) THEN [ret |-> m1.ret, raised |-> m1.raised, probes |-> p1]
        ELSE IF Ends(m2) THEN [ret |-> m2.ret, raised |-> m2.raised, probes |-> p2]
        ELSE [ret |-> m3.ret, raised |-> m3.raised, probes |-> p3]

\* _vm_type_str_to_enum(vm_str): the name of the VMType member
_vm_type_str_to_enum(vm_str) ==
    LET vm_lower == Lower(vm_str) IN
    CASE Contains(vm_lower, <<"v","m","w","a","r","e">>) -> "VMWARE"
      [] Contains(vm_lower, <<"v","i","r","t","u","a","l","b","o","x">>) \/ Contains(vm_lower, <<"o","r","a","c","l","e">>) -> "VIRTUALBOX"
      [] Contains(vm_lower, <<"k","v","m">>) -> "KVM"
      [] Contains(vm_lower, <<"q","e","m","u">>) -> "QEMU"
      [] Contains(vm_lower, <<"h","y","p","e","r","-","v">>) \/ Contains(vm_lower, <<"m","i","c","r","o","s","o","f","t">>) -> "HYPERV"
      [] Contains(vm_lower, <<"x","e","n">>) -> "XEN"
      [] Contains(vm_lower, <<"p","a","r","a","l","l","e","l","s">>) -> "PARALLELS"
      [] OTHER -> "NONE"

-----------------------------------------------------------------------------
(* GamingSetup.detect_gpu *)

\* the class markers that make an lspci line a GPU line
GpuLineKeywords == { <<"v","g","a">>, <<"3","d">>, <<"d","i","s","p","l","a","y">> }

\* the markers of a virtual or emulated GPU
VmIndicators == { <<"v","m","w","a","r","e">>, <<"v","i","r","t","u","a","l","b","o","x">>, <<"q","x","l">>, <<"v","i","r","t","i","o">>, <<"s","v","g","a","3","d">> }

\* the AMD markers that are names of the vendor
AmdVendorNames == { <<"a","m","d">>, <<"r","a","d","e","o","n">> }

AmdIndicators == { <<"a","m","d">>, <<"r","a","d","e","o","n">>, <<"a","t","i">> }

IntelGpuTerms == { <<"g","r","a","p","h","i","c","s">>, <<"h","d">>, <<"i","r","i","s">>, <<"u","h","d">>, <<"a","r","c">> }

\* a scan that finds no line with a class marker
no_gpu_lines(stdout) == << >>

\* gpu_lines: the lines of the lower-cased lspci output that hold a class marker
gpu_lines_of(stdout) == FilterLines(SplitLines(Lower(stdout)), GpuLineKeywords)

\* the first line of glxinfo's output that holds 'OpenGL renderer', lower-cased
RECURSIVE first_renderer_line(_)
first_renderer_line(lines) ==
    IF lines = << >> THEN << >>
    ELSE IF Contains(lines[1], <<"O","p","e","n","G","L"," ","r","e","n","d","e","r","e","r">>) THEN Lower(lines[1])
    ELSE first_renderer_line(Tail(lines))

\* gl_info and the exception, if any, that escapes the inner try
gl_probe(h) ==
    LET gl_result == subprocess_run(h.glxinfo, FALSE) IN
    IF gl_result.exc # "none"
    THEN MethodResult(<< >>, IF BareExcept(gl_result.exc) THEN "none" ELSE gl_result.exc)
    ELSE IF gl_result.returncode = 0
         THEN MethodResult(first_renderer_line(SplitLines(gl_result.stdout)), "none")
         ELSE MethodResult(<< >>, "none")

\* match_vendor with the AMD test moved before the NVIDIA test
match_vendor_amd_first(gpu_lines, gl_info) ==
    LET gpu_info == Lower(JoinSpace(gpu_lines)) IN
    CASE \E v \in VmIndicators : Contains(gpu_info, v) \/ Contains(gl_info, v) ->
            <<<<"g","e","n","e","r","i","c">>, "VIRTUAL">>
      [] \E a \in AmdIndicators : Contains(gpu_info, a) \/ Contains(gl_info, a) ->
            <<<<"a","m","d">>, "AMD">>
      [] Contains(gpu_info, <<"n","v","i","d","i","a">>) \/ Contains(gl_info, <<"n","v","i","d","i","a">>) ->
            <<<<"n","v","i","d","i","a">>, "NVIDIA">>
      [] Contains(gpu_info, <<"i","n","t","e","l">>) /\ ContainsAny(gpu_info, IntelGpuTerms) ->
            <<<<"i","n","t","e","l">>, "INTEL">>
      [] gpu_lines # << >> -> <<<<"g","e","n","e","r","i","c">>, "UNKNOWN">>
      [] OTHER -> <<<<"u","n","k","n","o","w","n">>, "UNKNOWN">>

\* the vendor matching of detect_gpu on gpu_lines and gl_info:
\* <<the str returned, the GPUVendor recorded>>
match_vendor(gpu_lines, gl_info) ==
    LET gpu_info == Lower(JoinSpace(gpu_lines)) IN
    CASE \E v \in VmIndicators : Contains(gpu_info, v) \/ Contains(gl_info, v) ->
            <<<<"g","e","n","e","r","i","c">>, "VIRTUAL">>
      [] Contains(gpu_info, <<"n","v","i","d","i","a">>) \/ Contains(gl_info, <<"n","v","i","d","i","a">>) ->
            <<<<"n","v","i","d","i","a">>, "NVIDIA">>
      [] \E a \in AmdIndicators : Contains(gpu_info, a) \/ Contains(gl_info, a) ->
            <<<<"a","m","d">>, "AMD">>
      [] Contains(gpu_info, <<"i","n","t","e","l">>) /\ ContainsAny(gpu_info, IntelGpuTerms) ->
            <<<<"i","n","t","e","l">>, "INTEL">>
      [] gpu_lines # << >> -> <<<<"g","e","n","e","r","i","c">>, "UNKNOWN">>
      [] OTHER -> <<<<"u","n","k","n","o","w","n">>, "UNKNOWN">>

\* a test that never takes the VM branch
VmGuardNever(vm_type) == FALSE

\* the VM test at the head of detect_gpu
VmGuard(vm_type) == Truthy(vm_type)

\* detect_gpu(): [ret, raised, hardware_info, probes]
detect_gpu(h, hw) ==
    LET vm == detect_virtualization(h)
        pl == Append(vm.probes, Probe("detect_gpu", "lspci"))
        pg == Append(pl, Probe("detect_gpu", "glxinfo"))
    IN
    IF vm.raised # "none"
    THEN [ret |-> None, raised |-> vm.raised, hardware_info |-> hw, probes |-> vm.probes]
    ELSE IF VmGuard(vm.ret)
    THEN [ret |-> Lower(vm.ret), raised |-> "none",
          hardware_info |-> [hw EXCEPT !.vm_type = _vm_type_str_to_enum(vm.ret),
                                       !.gpu_vendor = "VIRTUAL"],
          probes |-> vm.probes]
    ELSE LET result == subprocess_run(h.lspci_gpu, FALSE) IN
         IF result.exc # "none"
         THEN IF IsException(result.exc)
              THEN [ret |-> <<"u","n","k","n","o","w","n">>, raised |-> "none",
                    hardware_info |-> [hw EXCEPT !.gpu_vendor = "UNKNOWN"], probes |-> pl]
              ELSE [ret |-> None, raised |-> result.exc, hardware_info |-> hw,
                    probes |-> pl]
         ELSE LET gl == gl_probe(h) IN
              IF gl.raised # "none"
              THEN [ret |-> None, raised |-> gl.raised, hardware_info |-> hw, probes |-> pg]
              ELSE LET m == match_vendor(gpu_lines_of(result.stdout), gl.ret) IN
                   [ret |-> m[1], raised |-> "none",
                    hardware_info |-> [hw EXCEPT !.gpu_vendor = m[2]], probes |-> pg]

-----------------------------------------------------------------------------
(* GamingSetup.confirm.  What the operator does at the prompt is `inputs`,  *)
(* the sequence of events input() meets: [kind |-> "line", text] a line    *)
(* typed, [kind |-> "eof"] end of input, [kind |-> "interrupt"] Ctrl-C.    *)
(* A stream that is used up is at end of input.                            *)

Line(text) == [kind |-> "line", text |-> text]

EndOfInput == [kind |-> "eof", text |-> << >>]

Interrupt == [kind |-> "interrupt", text |-> << >>]

\* x repeated n times
RECURSIVE Repeat(_, _)
Repeat(x, n) == IF n = 0 THEN << >> ELSE <<x>> \o Repeat(x, n - 1)

\* one blocking read of operator input by confirm(question)
Read(question) == [kind |-> "input", who |-> "confirm", what |-> question]

\* a clause that lets end of input and Ctrl-C through
ExceptNoInputError(e) == FALSE

\* the clause `except (EOFError, KeyboardInterrupt)` of confirm
ExceptInputError(e) == e \in {"EOFError", "KeyboardInterrupt"}

\* the `while True` loop of confirm: [ret, raised, reads], reads being the
\* number of calls of input()
RECURSIVE confirm_loop(_, _)
confirm_loop(inputs, reads) ==
    LET ev == IF inputs = << >> THEN EndOfInput ELSE inputs[1] IN
    IF ev.kind # "line"
    THEN LET e == IF ev.kind = "eof" THEN "EOFError" ELSE "KeyboardInterrupt" IN
         [ret |-> FALSE, raised |-> IF ExceptInputError(e) THEN "none" ELSE e,
          reads |-> reads + 1]
    ELSE LET response == Lower(ev.text) IN
         IF response \in { <<"y">>, <<"y","e","s">> }
         THEN [ret |-> TRUE, raised |-> "none", reads |-> reads + 1]
         ELSE IF response \in { <<"n">>, <<"n","o">> }
         THEN [ret |-> FALSE, raised |-> "none", reads |-> reads + 1]
         ELSE confirm_loop(Tail(inputs), reads + 1)

\* a confirm that has no auto-yes mode
ConfirmAutoYesIgnored(cfg) == FALSE

\* `if self.config.auto_yes` of confirm
ConfirmAutoYes(cfg) == cfg.auto_yes

\* a confirm that has no dry-run mode
ConfirmDryRunIgnored(cfg) == FALSE

\* `if self.config.dry_run` of confirm
ConfirmDryRun(cfg) == cfg.dry_run

\* confirm(question): [ret, raised, reads]
confirm(cfg, inputs) ==
    IF ConfirmAutoYes(cfg) THEN [ret |-> TRUE, raised |-> "none", reads |-> 0]
    ELSE IF ConfirmDryRun(cfg) THEN [ret |-> TRUE, raised |-> "none", reads |-> 0]
    ELSE confirm_loop(inputs, 0)

-----------------------------------------------------------------------------
(* Package state queries.  Each takes the proc of the tool it invokes. *)

\* s.split(sep) for a one-character separator
RECURSIVE Split(_, _)
Split(s, sep) ==
    LET at == {i \in 1..Len(s) : s[i] = sep} IN
    IF at = {} THEN <<s>>
    ELSE LET k == CHOOSE i \in at : \A j \in at : i <= j IN
         <<SubSeq(s, 1, k - 1)>> \o Split(SubSeq(s, k + 1, Len(s)), sep)

\* the first line that holds `label`, None when no line does
RECURSIVE first_line_with(_, _)
first_line_with(lines, label) ==
    IF lines = << >> THEN None
    ELSE IF Contains(lines[1], label) THEN lines[1]
    ELSE first_line_with(Tail(lines), label)

\* line.split(':')[1].strip() of the first line that holds `label`
field_after_colon(stdout, label) ==
    LET line == first_line_with(Split(stdout, "\n"), label) IN
    IF line = None THEN None ELSE Strip(Split(line, ":")[2])

\* a clause that catches only a non-zero exit status
ExceptCalledProcessError(e) == e = "CalledProcessError"

\* the clause `except:` that ends each of the five package queries
QueryExcept(e) == TRUE

\* what a query's try block lets through to its caller: "none" when the
\* tool ran, or when the exception it met is caught
query_raised(tool) ==
    LET result == subprocess_run(tool, FALSE) IN
    IF result.exc = "none" \/ QueryExcept(result.exc) THEN "none" ELSE result.exc

\* is_package_installed: dpkg -l <package>
is_package_installed(dpkg_l) ==
    LET result == subprocess_run(dpkg_l, FALSE) IN
    IF result.exc # "none" THEN FALSE
    ELSE result.returncode = 0 /\ Contains(result.stdout, <<"i","i">>)

\* get_package_version: dpkg-query -W -f=${Version} <package>
get_package_version(dpkg_query) ==
    LET result == subprocess_run(dpkg_query, FALSE) IN
    IF result.exc = "none" /\ result.returncode = 0 THEN Strip(result.stdout) ELSE None

\* get_available_version: apt-cache policy <package>
get_available_version(apt_cache) ==
    LET result == subprocess_run(apt_cache, FALSE) IN
    IF result.exc = "none" /\ result.returncode = 0
    THEN field_after_colon(result.stdout, <<"C","a","n","d","i","d","a","t","e",":">>)
    ELSE None

\* is_flatpak_installed: flatpak list --app
is_flatpak_installed(app_id, flatpak_list) ==
    LET result == subprocess_run(flatpak_list, FALSE) IN
    IF result.exc # "none" THEN FALSE ELSE Contains(result.stdout, app_id)

\* get_flatpak_version: flatpak info <app_id>
get_flatpak_version(flatpak_info) ==
    LET result == subprocess_run(flatpak_info, FALSE) IN
    IF result.exc = "none" /\ result.returncode = 0
    THEN field_after_colon(result.stdout, <<"V","e","r","s","i","o","n",":">>)
    ELSE None

\* check_updates_available: <<update_available, installed, available>>
check_updates_available(dpkg_query, apt_cache) ==
    LET installed == get_package_version(dpkg_query)
        available == get_available_version(apt_cache)
    IN  IF Truthy(installed) /\ Truthy(available) /\ installed # available
        THEN <<TRUE, installed, available>>
        ELSE <<FALSE, installed, available>>

\* a guard that asks Flatpak whatever dpkg said
FlatpakGuardAlways(flatpak_id, is_installed) == Truthy(flatpak_id)

\* `if flatpak_id and not is_installed`
FlatpakGuard(flatpak_id, is_installed) == Truthy(flatpak_id) /\ ~is_installed

\* prompt_install_or_update(software_name, package_name, flatpak_id), q being
\* the procs of the five query tools and inputs the operator's input:
\* [ret, raised, probes, question, reads] and the locals is_installed,
\* current_version, available_version, update_available as it leaves them
prompt_install_or_update(cfg, software_name, package_name, flatpak_id, q, inputs) ==
    IF cfg.auto_yes
    THEN [ret |-> TRUE, raised |-> "none", probes |-> << >>, question |-> None,
          reads |-> 0, update_available |-> FALSE, is_installed |-> FALSE,
          current_version |-> None, available_version |-> None]
    ELSE
    LET has_package == Truthy(package_name)
        native == has_package /\ is_package_installed(q.dpkg_l)
        native_version == IF native THEN get_package_version(q.dpkg_query) ELSE None
        available_version == IF native THEN get_available_version(q.apt_cache) ELSE None
        update_available == native /\ native_version # available_version
        ask_flatpak == FlatpakGuard(flatpak_id, native)
        sandboxed == ask_flatpak /\ is_flatpak_installed(flatpak_id, q.flatpak_list)
        is_installed == native \/ sandboxed
        probes ==
            (IF has_package THEN <<Probe("is_package_installed", "dpkg")>> ELSE << >>)
            \o (IF native THEN <<Probe("get_package_version", "dpkg-query"),
                                 Probe("get_available_version", "apt-cache")>> ELSE << >>)
            \o (IF ask_flatpak THEN <<Probe("is_flatpak_installed", "flatpak")>> ELSE << >>)
            \o (IF sandboxed THEN <<Probe("get_flatpak_version", "flatpak")>> ELSE << >>)
        question ==
            IF is_installed
            THEN IF update_available /\ Truthy(available_version)
                 THEN <<"Update ">> \o software_name \o <<"?">>
                 ELSE <<"Reinstall ">> \o software_name \o <<"?">>
            ELSE <<"Install ">> \o software_name \o <<"?">>
        current_version ==
            IF sandboxed THEN get_flatpak_version(q.flatpak_info) ELSE native_version
        answer == confirm(cfg, inputs)
    IN  [ret |-> answer.ret, raised |-> answer.raised, probes |-> probes,
         question |-> question, reads |-> answer.reads,
         update_available |-> update_available, is_installed |-> is_installed,
         current_version |-> current_version, available_version |-> available_version]

-----------------------------------------------------------------------------
(* The machines the detectors are run on *)

\* a tool that ran, exited 0 and printed `out`
Printed(out) == ExitProc(0, out, << >>)

\* what systemd-detect-virt does
SdvProcs ==
    { Printed(<<"k","v","m","\n">>), Printed(<<"v","m","w","a","r","e","\n">>), Printed(<<"q","e","m","u","\n">>), Printed(<<"o","r","a","c","l","e","\n">>),
      Printed(<<"m","i","c","r","o","s","o","f","t","\n">>), Printed(<<"x","e","n","\n">>), Printed(<<"p","a","r","a","l","l","e","l","s","\n">>),
      Printed(<<"b","o","c","h","s","\n">>), Printed(<<"l","x","c","\n">>), Printed(<< >>),
      ExitProc(1, <<"n","o","n","e","\n">>, << >>),
      TimeoutProc, NoLaunchProc("FileNotFoundError"), InterruptProc }

\* what dmesg does
DmesgProcs ==
    { Printed(<<"L","i","n","u","x"," ","v","e","r","s","i","o","n"," ","6",".","8","\n">>),
      Printed(<<"D","M","I",":"," ","V","M","w","a","r","e",","," ","I","n","c",".","\n">>),
      Printed(<<"D","M","I",":"," ","i","n","n","o","t","e","k"," ","V","i","r","t","u","a","l","B","o","x","\n">>),
      Printed(<<"H","y","p","e","r","v","i","s","o","r"," ","d","e","t","e","c","t","e","d",":"," ","K","V","M","\n">>),
      ExitProc(1, << >>, <<"dmesg: read kernel buffer failed">>),
      TimeoutProc, NoLaunchProc("PermissionError"), InterruptProc }

\* the lines an lspci listing is made of
LspciLines ==
    { <<"V","G","A"," ","c","o","m","p","a","t","i","b","l","e"," ","c","o","n","t","r","o","l","l","e","r",":"," ","N","V","I","D","I","A"," ","G","A","1","0","6">>,
      <<"V","G","A"," ","c","o","m","p","a","t","i","b","l","e"," ","c","o","n","t","r","o","l","l","e","r",":"," ","I","n","t","e","l"," ","C","o","r","p","o","r","a","t","i","o","n"," ","U","H","D"," ","G","r","a","p","h","i","c","s">>,
      <<"D","i","s","p","l","a","y"," ","c","o","n","t","r","o","l","l","e","r",":"," ","A","M","D"," ","R","a","d","e","o","n"," ","R","X">>,
      <<"3","D"," ","c","o","n","t","r","o","l","l","e","r",":"," ","I","n","t","e","l"," ","A","r","c"," ","A","3","7","0","M">>,
      <<"D","i","s","p","l","a","y"," ","c","o","n","t","r","o","l","l","e","r",":"," ","M","a","t","r","o","x"," ","G","2","0","0">>,
      <<"V","G","A"," ","c","o","m","p","a","t","i","b","l","e"," ","c","o","n","t","r","o","l","l","e","r",":"," ","V","M","w","a","r","e"," ","S","V","G","A"," ","I","I">>,
      <<"E","t","h","e","r","n","e","t"," ","c","o","n","t","r","o","l","l","e","r",":"," ","I","n","t","e","l"," ","I","2","1","9">>,
      <<"S","C","S","I"," ","c","o","n","t","r","o","l","l","e","r",":"," ","R","e","d"," ","H","a","t"," ","V","i","r","t","i","o"," ","b","l","o","c","k">> }

\* lines joined as lspci prints them, one per line
RECURSIVE Listing(_)
Listing(lines) ==
    IF lines = << >> THEN << >> ELSE lines[1] \o <<"\n">> \o Listing(Tail(lines))

Listings == { Listing(ls) : ls \in UNION { [1..n -> LspciLines] : n \in 0..MaxLines } }

\* what glxinfo does
GlxProcs ==
    { Printed(<<"O","p","e","n","G","L"," ","v","e","n","d","o","r"," ","s","t","r","i","n","g",":"," ","I","n","t","e","l","\n","O","p","e","n","G","L"," ","r","e","n","d","e","r","e","r"," ","s","t","r","i","n","g",":"," ","l","l","v","m","p","i","p","e","\n">>),
      Printed(<<"O","p","e","n","G","L"," ","r","e","n","d","e","r","e","r"," ","s","t","r","i","n","g",":"," ","N","V","I","D","I","A"," ","G","e","F","o","r","c","e","\n">>),
      Printed(<<"O","p","e","n","G","L"," ","r","e","n","d","e","r","e","r"," ","s","t","r","i","n","g",":"," ","A","M","D"," ","R","a","d","e","o","n","\n">>),
      Printed(<<"O","p","e","n","G","L"," ","r","e","n","d","e","r","e","r"," ","s","t","r","i","n","g",":"," ","S","V","G","A","3","D","\n">>),
      Printed(<<"O","p","e","n","G","L"," ","r","e","n","d","e","r","e","r"," ","s","t","r","i","n","g",":"," ","M","e","s","a"," ","I","n","t","e","l","(","R",")"," ","U","H","D"," ","G","r","a","p","h","i","c","s","\n">>),
      ExitProc(1, <<"O","p","e","n","G","L"," ","r","e","n","d","e","r","e","r"," ","s","t","r","i","n","g",":"," ","N","V","I","D","I","A"," ","G","e","F","o","r","c","e","\n">>, <<"unable to open display">>),
      TimeoutProc, NoLaunchProc("FileNotFoundError"), InterruptProc }

Failures == { TimeoutProc, NoLaunchProc("FileNotFoundError"), InterruptProc }

NoHost ==
    [sdv |-> TimeoutProc, dmesg |-> TimeoutProc, lspci_vm |-> TimeoutProc,
     lspci_gpu |-> TimeoutProc, glxinfo |-> TimeoutProc]

-----------------------------------------------------------------------------
(* The command executor on its own: any caller, any command. *)

\* run_command's default timeout
DefaultTimeout == 300

\* the timeout install_ge_proton gives its download
DownloadTimeout == 600

Descriptions ==
    { << >>, <<"Installing Steam">>, <<"Testing repository configuration">> }

Procs ==
    { ExitProc(0, <<"out">>, << >>),
      ExitProc(1, <<"out">>, <<"E: Unable to locate package">>),
      ExitProc(100, << >>, <<"E: has no installation candidate">>),
      TimeoutProc,
      NoLaunchProc("FileNotFoundError"),
      NoLaunchProc("PermissionError"),
      InterruptProc }

\* run() is not under way: its variables as the constructor leaves them
NotRunning ==
    /\ pc = "idle"
    /\ system_info = [distro_name |-> <<"Unknown">>, distro_version |-> <<"U","n","k","n","o","w","n">>]
    /\ installation_state = << >>
    /\ state_file = [exists |-> FALSE, data |-> << >>]
    /\ gpu_type = None
    /\ faults = << >>

NoCall ==
    [op |-> "none", description |-> << >>, check |-> TRUE, proc |-> TimeoutProc,
     raised |-> "none", ret |-> << >>, ledger_before |-> << >>,
     effects_before |-> << >>]

InitCmd ==
    /\ config \in [dry_run : BOOLEAN, auto_yes : BOOLEAN]
    /\ failed_operations = << >>
    /\ hardware_info = [gpu_vendor |-> "UNKNOWN", vm_type |-> "NONE"]
    /\ effects = << >>
    /\ host = NoHost
    /\ call = NoCall
    /\ ncalls = 0
    /\ NotRunning

\* some caller calls run_command(cmd, d, check=c, timeout=t)
RunCommandCall ==
    /\ ncalls < MaxCalls
    /\ call.raised = "none"
    /\ \E d \in Descriptions, c \in BOOLEAN, t \in {DefaultTimeout, DownloadTimeout},
          p \in Procs :
          LET r == run_command(config, failed_operations, d, c, t, p) IN
          /\ failed_operations' = r.failed_operations
          /\ effects' = IF r.spawned THEN Append(effects, Spawn(d)) ELSE effects
          /\ call' = [op |-> "run_command", description |-> d, check |-> c, proc |-> p,
                      raised |-> r.raised, ret |-> r.ret,
                      ledger_before |-> failed_operations, effects_before |-> effects]
    /\ ncalls' = ncalls + 1
    /\ UNCHANGED <<config, hardware_info, host>>
    /\ UNCHANGED runvars

NextCmd == RunCommandCall

SpecCmd == InitCmd /\ [][NextCmd]_vars

-----------------------------------------------------------------------------
(* detect_virtualization on its own, on any machine *)

InitVirt ==
    /\ config = [dry_run |-> FALSE, auto_yes |-> FALSE]
    /\ failed_operations = << >>
    /\ hardware_info = [gpu_vendor |-> "UNKNOWN", vm_type |-> "NONE"]
    /\ effects = << >>
    /\ \E a \in SdvProcs, b \in DmesgProcs, c \in {Printed(l) : l \in Listings} \cup Failures :
          host = [sdv |-> a, dmesg |-> b, lspci_vm |-> c, lspci_gpu |-> c,
                  glxinfo |-> TimeoutProc]
    /\ call = NoCall
    /\ ncalls = 0
    /\ NotRunning

\* some caller calls detect_virtualization()
DetectVirtualizationCall ==
    /\ ncalls < MaxCalls
    /\ call.raised = "none"
    /\ LET r == detect_virtualization(host) IN
       /\ effects' = effects \o r.probes
       /\ call' = [NoCall EXCEPT !.op = "detect_virtualization", !.raised = r.raised,
                                 !.ret = r.ret, !.ledger_before = failed_operations,
                                 !.effects_before = effects]
    /\ ncalls' = ncalls + 1
    /\ UNCHANGED <<config, failed_operations, hardware_info, host>>
    /\ UNCHANGED runvars

NextVirt == DetectVirtualizationCall

SpecVirt == InitVirt /\ [][NextVirt]_vars

-----------------------------------------------------------------------------
(* detect_gpu on its own, on any machine *)

InitGpu ==
    /\ config = [dry_run |-> FALSE, auto_yes |-> FALSE]
    /\ failed_operations = << >>
    /\ hardware_info = [gpu_vendor |-> "UNKNOWN", vm_type |-> "NONE"]
    /\ effects = << >>
    /\ \E a \in {ExitProc(1, <<"n","o","n","e","\n">>, << >>), Printed(<<"k","v","m","\n">>), Printed(<<"b","o","c","h","s","\n">>)},
          b \in {Printed(<<"L","i","n","u","x"," ","v","e","r","s","i","o","n"," ","6",".","8","\n">>), Printed(<<"H","y","p","e","r","v","i","s","o","r"," ","d","e","t","e","c","t","e","d",":"," ","K","V","M","\n">>)},
          l \in Listings, fv \in {"ok", "fails"}, g \in GlxProcs :
          \E fg \in {Printed(l)} \cup Failures :
          host = [sdv |-> a, dmesg |-> b,
                  lspci_vm |-> IF fv = "ok" THEN Printed(l) ELSE TimeoutProc,
                  lspci_gpu |-> fg, glxinfo |-> g]
    /\ call = NoCall
    /\ ncalls = 0
    /\ NotRunning

\* some caller calls detect_gpu()
DetectGpuCall ==
    /\ ncalls < MaxCalls
    /\ call.raised = "none"
    /\ LET r == detect_gpu(host, hardware_info) IN
       /\ effects' = effects \o r.probes
       /\ hardware_info' = r.hardware_info
       /\ call' = [NoCall EXCEPT !.op = "detect_gpu", !.raised = r.raised,
                                 !.ret = r.ret, !.ledger_before = failed_operations,
                                 !.effects_before = effects]
    /\ ncalls' = ncalls + 1
    /\ UNCHANGED <<config, failed_operations, host>>
    /\ UNCHANGED runvars

NextGpu == DetectGpuCall

SpecGpu == InitGpu /\ [][NextGpu]_vars

-----------------------------------------------------------------------------
(* prompt_install_or_update, confirm and the package queries on their own, *)
(* called once, for any answers of the package tools and any operator      *)

\* dpkg -l <package>: installed, unknown
DpkgLProcs ==
    { Printed(<<"i","i"," "," ","p","k","g"," "," ","1",".","0"," "," ","a","m","d","6","4"," "," ","a"," ","p","a","c","k","a","g","e","\n">>),
      ExitProc(1, << >>, <<"dpkg-query: no packages found">>) }

\* dpkg-query -W -f=${Version} <package>
DpkgQueryProcs ==
    { Printed(<<"1",".","0">>), Printed(<<"2",".","0">>), Printed(<< >>) }

\* apt-cache policy <package>
AptCacheProcs ==
    { Printed(<<"p","k","g",":","\n"," "," ","I","n","s","t","a","l","l","e","d",":"," ","1",".","0","\n"," "," ","C","a","n","d","i","d","a","t","e",":"," ","1",".","0","\n"," "," ","V","e","r","s","i","o","n"," ","t","a","b","l","e",":","\n">>),
      Printed(<<"p","k","g",":","\n"," "," ","I","n","s","t","a","l","l","e","d",":"," ","1",".","0","\n"," "," ","C","a","n","d","i","d","a","t","e",":"," ","1",".","0",".","1","\n"," "," ","V","e","r","s","i","o","n"," ","t","a","b","l","e",":","\n">>),
      Printed(<<"p","k","g",":","\n"," "," ","I","n","s","t","a","l","l","e","d",":"," ","1",".","0","\n"," "," ","C","a","n","d","i","d","a","t","e",":"," ","1",".","9","\n"," "," ","V","e","r","s","i","o","n"," ","t","a","b","l","e",":","\n">>) }

\* the application the model asks Flatpak about
AppId == <<"c","o","m",".","v","a","l","v","e","s","o","f","t","w","a","r","e",".","S","t","e","a","m">>

\* flatpak list --app
FlatpakListProcs ==
    { Printed(<<"S","t","e","a","m","	","c","o","m",".","v","a","l","v","e","s","o","f","t","w","a","r","e",".","S","t","e","a","m","	","1",".","0",".","0",".","8","1","	","s","t","a","b","l","e","	","s","y","s","t","e","m","\n">>),
      Printed(<<"D","i","s","c","o","r","d","	","c","o","m",".","d","i","s","c","o","r","d","a","p","p",".","D","i","s","c","o","r","d","	","0",".","0",".","7","0","	","s","t","a","b","l","e","	","s","y","s","t","e","m","\n">>) }

\* flatpak info <app_id>
FlatpakInfoProcs ==
    { Printed(<<"S","t","e","a","m"," ","-"," ","L","a","u","n","c","h","e","r","\n","\n"," "," "," "," "," "," "," "," "," "," ","I","D",":"," ","c","o","m",".","v","a","l","v","e","s","o","f","t","w","a","r","e",".","S","t","e","a","m","\n"," "," "," "," "," ","V","e","r","s","i","o","n",":"," ","1",".","0",".","0",".","8","1","\n">>),
      ExitProc(1, << >>, <<"error: not installed">>) }

\* a tool that cannot be started, or does not answer within its 5 seconds
QueryFailures == { TimeoutProc, NoLaunchProc("FileNotFoundError") }

\* lines confirm() does not recognise: it reads without strip()
Unrecognised == << <<"m","a","y","b","e">>, <<"y"," ">>, << >> >>

\* what ends the operator's input: an answer, end of input or Ctrl-C
LastInputs ==
    { <<Line(<<"y">>)>>, <<Line(<<"Y","E","S">>)>>, <<Line(<<"n">>)>>,
      <<Line(<<"N","o">>)>>, << >>, <<Interrupt>> }

\* the operator: up to MaxReprompts unrecognised lines, then a last input
OperatorInputs ==
    { [i \in 1..n |-> Line(Unrecognised[i])] \o l : n \in 0..MaxReprompts, l \in LastInputs }

\* the tools on a machine where the package is installed and current and
\* the application is not installed
UsualTools ==
    [dpkg_l |-> Printed(<<"i","i"," "," ","p","k","g"," "," ","1",".","0"," "," ","a","m","d","6","4"," "," ","a"," ","p","a","c","k","a","g","e","\n">>),
     dpkg_query |-> Printed(<<"1",".","0">>),
     apt_cache |-> Printed(<<"p","k","g",":","\n"," "," ","I","n","s","t","a","l","l","e","d",":"," ","1",".","0","\n"," "," ","C","a","n","d","i","d","a","t","e",":"," ","1",".","0","\n"," "," ","V","e","r","s","i","o","n"," ","t","a","b","l","e",":","\n">>),
     flatpak_list |-> Printed(<<"D","i","s","c","o","r","d","	","c","o","m",".","d","i","s","c","o","r","d","a","p","p",".","D","i","s","c","o","r","d","	","0",".","0",".","7","0","	","s","t","a","b","l","e","	","s","y","s","t","e","m","\n">>),
     flatpak_info |-> ExitProc(1, << >>, <<"error: not installed">>)]

\* the answers of dpkg, dpkg-query and apt-cache
NativeTools ==
    { [UsualTools EXCEPT !.dpkg_l = a, !.dpkg_query = b, !.apt_cache = c] :
        a \in DpkgLProcs \cup QueryFailures, b \in DpkgQueryProcs \cup {TimeoutProc},
        c \in AptCacheProcs \cup {TimeoutProc} }

\* the answers of flatpak list and flatpak info
SandboxTools ==
    { [UsualTools EXCEPT !.flatpak_list = a, !.flatpak_info = b] :
        a \in FlatpakListProcs \cup QueryFailures, b \in FlatpakInfoProcs \cup {TimeoutProc} }

\* the package_name and flatpak_id arguments the installers pass, on the
\* machines that matter to them
PackageMachines ==
    { [q |-> q, package_name |-> <<"pkg">>, flatpak_id |-> None] : q \in NativeTools }
    \cup { [q |-> q, package_name |-> None, flatpak_id |-> AppId] : q \in SandboxTools }
    \cup { [q |-> [q EXCEPT !.dpkg_l = a], package_name |-> <<"pkg">>, flatpak_id |-> AppId] :
              q \in SandboxTools, a \in DpkgLProcs \cup QueryFailures }

\* who started the program and what they will type: the prompts are not
\* reached with --dry-run or -y, whatever the operator would have typed
Operators ==
    { [config |-> [dry_run |-> FALSE, auto_yes |-> FALSE], inputs |-> i] : i \in OperatorInputs }
    \cup { [config |-> c, inputs |-> i] :
              c \in [dry_run : BOOLEAN, auto_yes : BOOLEAN] \ {[dry_run |-> FALSE, auto_yes |-> FALSE]},
              i \in { <<Line(<<"n">>)>>, <<Interrupt>> } }

InitPkg ==
    /\ failed_operations = << >>
    /\ hardware_info = [gpu_vendor |-> "UNKNOWN", vm_type |-> "NONE"]
    /\ effects = << >>
    /\ \E m \in PackageMachines, o \in Operators :
          /\ config = o.config
          /\ host = [q |-> m.q, package_name |-> m.package_name,
                     flatpak_id |-> m.flatpak_id, inputs |-> o.inputs]
    /\ call = NoCall
    /\ ncalls = 0
    /\ NotRunning

\* some installer calls prompt_install_or_update("Steam", package_name, flatpak_id)
PromptInstallOrUpdateCall ==
    /\ ncalls = 0
    /\ LET r == prompt_install_or_update(config, <<"Steam">>, host.package_name,
                                         host.flatpak_id, host.q, host.inputs) IN
       /\ effects' = effects \o r.probes \o Repeat(Read(r.question), r.reads)
       /\ call' = [NoCall EXCEPT !.op = "prompt_install_or_update", !.raised = r.raised,
                                 !.ret = r, !.ledger_before = failed_operations,
                                 !.effects_before = effects]
    /\ ncalls' = ncalls + 1
    /\ UNCHANGED <<config, failed_operations, hardware_info, host>>
    /\ UNCHANGED runvars

\* some caller calls confirm("Continue with installation?")
ConfirmCall ==
    /\ ncalls = 0
    /\ LET r == confirm(config, host.inputs) IN
       /\ effects' = effects \o Repeat(Read(<<"Continue with installation?">>), r.reads)
       /\ call' = [NoCall EXCEPT !.op = "confirm", !.raised = r.raised,
                                 !.ret = r, !.ledger_before = failed_operations,
                                 !.effects_before = effects]
    /\ ncalls' = ncalls + 1
    /\ UNCHANGED <<config, failed_operations, hardware_info, host>>
    /\ UNCHANGED runvars

\* the value of one of the five queries and the tool it runs
query_value(name, app_id, q) ==
    CASE name = "is_package_installed" -> is_package_installed(q.dpkg_l)
      [] name = "get_package_version" -> get_package_version(q.dpkg_query)
      [] name = "get_available_version" -> get_available_version(q.apt_cache)
      [] name = "is_flatpak_installed" -> is_flatpak_installed(app_id, q.flatpak_list)
      [] name = "get_flatpak_version" -> get_flatpak_version(q.flatpak_info)

query_tool(name, q) ==
    CASE name = "is_package_installed" -> q.dpkg_l
      [] name = "get_package_version" -> q.dpkg_query
      [] name = "get_available_version" -> q.apt_cache
      [] name = "is_flatpak_installed" -> q.flatpak_list
      [] name = "get_flatpak_version" -> q.flatpak_info

PackageQueries ==
    { "is_package_installed", "get_package_version", "get_available_version",
      "is_flatpak_installed", "get_flatpak_version" }

\* some caller calls one of the five queries
PackageQueryCall ==
    /\ ncalls = 0
    /\ \E name \in PackageQueries :
          LET raised == query_raised(query_tool(name, host.q)) IN
          /\ effects' = Append(effects, Probe(name,
                 CASE name = "is_package_installed" -> "dpkg"
                   [] name = "get_package_version" -> "dpkg-query"
                   [] name = "get_available_version" -> "apt-cache"
                   [] OTHER -> "flatpak"))
          /\ call' = [NoCall EXCEPT !.op = name, !.raised = raised,
                                    !.ret = IF raised = "none"
                                            THEN query_value(name, AppId, host.q)
                                            ELSE None,
                                    !.proc = query_tool(name, host.q),
                                    !.ledger_before = failed_operations,
                                    !.effects_before = effects]
    /\ ncalls' = ncalls + 1
    /\ UNCHANGED <<config, failed_operations, hardware_info, host>>
    /\ UNCHANGED runvars

NextPkg == PromptInstallOrUpdateCall \/ ConfirmCall \/ PackageQueryCall

SpecPkg == InitPkg /\ [][NextPkg]_vars

-----------------------------------------------------------------------------
(* run(): the machine, the operator and the session                        *)

\* a Python dict with str keys, as a function; {} is << >>
Put(d, k, v) == [x \in (DOMAIN d) \cup {k} |-> IF x = k THEN v ELSE d[x]]

\* d.get(k, default)
Get(d, k, default) == IF k \in DOMAIN d THEN d[k] ELSE default

\* what the package tools print on a machine where every package is
\* `status`: "absent", "current" (installed, no newer candidate) or
\* "outdated" (installed, newer candidate)
DpkgL(status) ==
    IF status = "absent"
    THEN ExitProc(1, << >>, <<"dpkg-query: no packages found">>)
    ELSE Printed(<<"i","i"," "," ","p","k","g"," ","1",".","0"," ","a","m","d","6","4","\n">>)

DpkgQuery(status) ==
    IF status = "absent"
    THEN ExitProc(1, << >>, <<"dpkg-query: no packages found">>)
    ELSE Printed(<<"1",".","0">>)

AptCache(status) ==
    IF status = "outdated"
    THEN Printed(<<" "," ","I","n","s","t","a","l","l","e","d",":"," ","1",".","0","\n"," "," ","C","a","n","d","i","d","a","t","e",":"," ","1",".","1","\n">>)
    ELSE Printed(<<" "," ","I","n","s","t","a","l","l","e","d",":"," ","1",".","0","\n"," "," ","C","a","n","d","i","d","a","t","e",":"," ","1",".","0","\n">>)

FlatpakList(status) ==
    IF status = "absent"
    THEN Printed(<< >>)
    ELSE Printed(<<"n","e","t",".","l","u","t","r","i","s",".","L","u","t","r","i","s","\n","c","o","m",".","h","e","r","o","i","c","g","a","m","e","s","l","a","u","n","c","h","e","r",".","h","g","l","\n","n","e","t",".","d","a","v","i","d","o","t","e","k",".","p","u","p","g","u","i","2","\n","c","o","m",".","d","i","s","c","o","r","d","a","p","p",".","D","i","s","c","o","r","d","\n","o","r","g",".","v","i","n","e","g","a","r","h","q",".","S","o","b","e","r","\n","c","o","m",".","l","e","i","n","a","r","d","i",".","g","w","e","\n">>)

FlatpakInfo(status) ==
    IF status = "absent"
    THEN ExitProc(1, << >>, <<"error: not installed">>)
    ELSE Printed(<<" ","V","e","r","s","i","o","n",":"," ","1",".","0","\n">>)

\* /etc/os-release of the machines
OsReleaseUbuntu2404 ==
    [exists |-> TRUE,
     fields |-> [NAME |-> <<"Ubuntu">>, VERSION_ID |-> <<"2","4",".","0","4">>, ID |-> <<"ubuntu">>]]

OsReleaseUbuntu2204 ==
    [exists |-> TRUE,
     fields |-> [NAME |-> <<"Ubuntu">>, VERSION_ID |-> <<"2","2",".","0","4">>, ID |-> <<"ubuntu">>]]

OsReleaseDebian12 ==
    [exists |-> TRUE,
     fields |-> [NAME |-> <<"Debian GNU/Linux">>, VERSION_ID |-> <<"1","2">>, ID |-> <<"debian">>]]

OsReleaseRolling ==
    [exists |-> TRUE, fields |-> [NAME |-> <<"Kali GNU/Linux">>, ID |-> <<"kali">>]]

OsReleaseMissing == [exists |-> FALSE, fields |-> << >>]

\* a bare-metal Ubuntu 24.04 machine with an NVIDIA GPU, nothing installed
\* yet, and an operator who answers y
NvidiaDesktop ==
    [sdv |-> ExitProc(1, <<"n","o","n","e","\n">>, << >>),
     dmesg |-> Printed(<<"L","i","n","u","x"," ","v","e","r","s","i","o","n"," ","6",".","8","\n">>),
     lspci_vm |-> Printed(<<"V","G","A"," ","c","o","m","p","a","t","i","b","l","e"," ","c","o","n","t","r","o","l","l","e","r",":"," ","N","V","I","D","I","A"," ","G","A","1","0","6","\n">>),
     lspci_gpu |-> Printed(<<"V","G","A"," ","c","o","m","p","a","t","i","b","l","e"," ","c","o","n","t","r","o","l","l","e","r",":"," ","N","V","I","D","I","A"," ","G","A","1","0","6","\n">>),
     glxinfo |-> Printed(<<"O","p","e","n","G","L"," ","r","e","n","d","e","r","e","r"," ","s","t","r","i","n","g",":"," ","N","V","I","D","I","A"," ","G","e","F","o","r","c","e","\n">>),
     nvidia_smi |-> Printed(<<"D","r","i","v","e","r"," ","V","e","r","s","i","o","n",":"," ","5","5","0",".","1","\n">>),
     os_release |-> OsReleaseUbuntu2404,
     packages |-> "absent",
     answer |-> <<"y">>,
     apt_error |-> <<"E: Unable to fetch some archives">>,
     broken_ppa |-> FALSE,
     github |-> "asset",
     wayland |-> TRUE,
     cpupower |-> TRUE,
     vkbasalt_conf |-> FALSE,
     state_file |-> [exists |-> FALSE, data |-> << >>],
     now |-> <<"2026-01-02T00:00:00">>]

\* a KVM guest as systemd-detect-virt reports it, packages installed and
\* up to date, a broken PPA file present
KvmGuest ==
    [NvidiaDesktop EXCEPT
        !.sdv = Printed(<<"k","v","m","\n">>),
        !.dmesg = Printed(<<"H","y","p","e","r","v","i","s","o","r"," ","d","e","t","e","c","t","e","d",":"," ","K","V","M","\n">>),
        !.lspci_vm = Printed(<<"S","C","S","I"," ","c","o","n","t","r","o","l","l","e","r",":"," ","R","e","d"," ","H","a","t"," ","V","i","r","t","i","o"," ","b","l","o","c","k","\n">>),
        !.lspci_gpu = Printed(<<"S","C","S","I"," ","c","o","n","t","r","o","l","l","e","r",":"," ","R","e","d"," ","H","a","t"," ","V","i","r","t","i","o"," ","b","l","o","c","k","\n">>),
        !.glxinfo = ExitProc(1, << >>, <<"unable to open display">>),
        !.nvidia_smi = NoLaunchProc("FileNotFoundError"),
        !.os_release = OsReleaseUbuntu2204,
        !.packages = "current",
        !.broken_ppa = TRUE,
        !.wayland = FALSE,
        !.state_file = [exists |-> TRUE,
                        data |-> [last_updated |-> <<"2026-01-01T00:00:00">>,
                                  distro |-> <<"Ubuntu">>,
                                  version |-> <<"2","2",".","0","4">>]]]

\* a VMware guest whose systemd-detect-virt is interrupted and whose kernel
\* log names the hypervisor; the operator answers n
VmwareGuest ==
    [NvidiaDesktop EXCEPT
        !.sdv = InterruptProc,
        !.dmesg = Printed(<<"D","M","I",":"," ","V","M","w","a","r","e",","," ","I","n","c",".","\n">>),
        !.lspci_vm = Printed(<<"V","G","A"," ","c","o","m","p","a","t","i","b","l","e"," ","c","o","n","t","r","o","l","l","e","r",":"," ","V","M","w","a","r","e"," ","S","V","G","A"," ","I","I","\n">>),
        !.lspci_gpu = Printed(<<"V","G","A"," ","c","o","m","p","a","t","i","b","l","e"," ","c","o","n","t","r","o","l","l","e","r",":"," ","V","M","w","a","r","e"," ","S","V","G","A"," ","I","I","\n">>),
        !.glxinfo = Printed(<<"O","p","e","n","G","L"," ","r","e","n","d","e","r","e","r"," ","s","t","r","i","n","g",":"," ","S","V","G","A","3","D","\n">>),
        !.nvidia_smi = NoLaunchProc("FileNotFoundError"),
        !.answer = <<"n">>,
        !.cpupower = FALSE]

\* a guest recognised by its virtio devices only
VirtioGuest ==
    [NvidiaDesktop EXCEPT
        !.sdv = NoLaunchProc("FileNotFoundError"),
        !.dmesg = ExitProc(1, << >>, <<"dmesg: read kernel buffer failed">>),
        !.lspci_vm = Printed(<<"S","C","S","I"," ","c","o","n","t","r","o","l","l","e","r",":"," ","R","e","d"," ","H","a","t"," ","V","i","r","t","i","o"," ","b","l","o","c","k","\n">>),
        !.lspci_gpu = Printed(<<"S","C","S","I"," ","c","o","n","t","r","o","l","l","e","r",":"," ","R","e","d"," ","H","a","t"," ","V","i","r","t","i","o"," ","b","l","o","c","k","\n">>),
        !.nvidia_smi = NoLaunchProc("FileNotFoundError"),
        !.os_release = OsReleaseDebian12,
        !.packages = "outdated",
        !.apt_error = <<"E: Package 'xboxdrv' ", "has no installation candidate">>,
        !.github = "noasset"]

\* a bare-metal machine with an unrecognised GPU, on a rolling release
MatroxServer ==
    [NvidiaDesktop EXCEPT
        !.lspci_vm = Printed(<<"D","i","s","p","l","a","y"," ","c","o","n","t","r","o","l","l","e","r",":"," ","M","a","t","r","o","x"," ","G","2","0","0","\n">>),
        !.lspci_gpu = Printed(<<"D","i","s","p","l","a","y"," ","c","o","n","t","r","o","l","l","e","r",":"," ","M","a","t","r","o","x"," ","G","2","0","0","\n">>),
        !.glxinfo = TimeoutProc,
        !.nvidia_smi = NoLaunchProc("FileNotFoundError"),
        !.os_release = OsReleaseRolling,
        !.apt_error = <<"E: Package 'xboxdrv' ", "has no installation candidate">>,
        !.vkbasalt_conf = TRUE]

\* a laptop with an AMD GPU next to an Intel one, NVIDIA packages left over
AmdIntelLaptop ==
    [NvidiaDesktop EXCEPT
        !.lspci_vm = Printed(<<"D","i","s","p","l","a","y"," ","c","o","n","t","r","o","l","l","e","r",":"," ","A","M","D"," ","R","a","d","e","o","n"," ","R","X","\n","3","D"," ","c","o","n","t","r","o","l","l","e","r",":"," ","I","n","t","e","l"," ","A","r","c"," ","A","3","7","0","M","\n">>),
        !.lspci_gpu = Printed(<<"D","i","s","p","l","a","y"," ","c","o","n","t","r","o","l","l","e","r",":"," ","A","M","D"," ","R","a","d","e","o","n"," ","R","X","\n","3","D"," ","c","o","n","t","r","o","l","l","e","r",":"," ","I","n","t","e","l"," ","A","r","c"," ","A","3","7","0","M","\n">>),
        !.glxinfo = Printed(<<"O","p","e","n","G","L"," ","r","e","n","d","e","r","e","r"," ","s","t","r","i","n","g",":"," ","A","M","D"," ","R","a","d","e","o","n","\n">>),
        !.nvidia_smi = ExitProc(9, << >>, <<"NVIDIA-SMI has failed">>),
        !.packages = "current",
        !.answer = <<"n">>]

\* a Hyper-V guest without /etc/os-release
HyperVGuest ==
    [NvidiaDesktop EXCEPT
        !.sdv = Printed(<<"m","i","c","r","o","s","o","f","t","\n">>),
        !.nvidia_smi = NoLaunchProc("FileNotFoundError"),
        !.os_release = OsReleaseMissing]

RunHosts ==
    { NvidiaDesktop, KvmGuest, VmwareGuest, VirtioGuest, MatroxServer,
      AmdIntelLaptop, HyperVGuest }

\* InstallationConfig(): every option off
InstallationConfig ==
    [dry_run |-> FALSE, auto_yes |-> FALSE, skip_update |-> FALSE,
     install_nvidia_drivers |-> FALSE, install_amd_drivers |-> FALSE,
     install_intel_drivers |-> FALSE, install_vm_tools |-> FALSE,
     install_steam |-> FALSE, install_lutris |-> FALSE, install_heroic |-> FALSE,
     install_protonup |-> FALSE, install_sober |-> FALSE, install_waydroid |-> FALSE,
     install_wine |-> FALSE, install_winetricks |-> FALSE,
     install_ge_proton |-> FALSE, install_gamemode |-> FALSE,
     install_mangohud |-> FALSE, install_goverlay |-> FALSE,
     install_greenwithenv |-> FALSE, install_vkbasalt |-> FALSE,
     install_reshade_setup |-> FALSE, install_discord |-> FALSE,
     install_obs |-> FALSE, install_mumble |-> FALSE,
     install_mod_managers |-> FALSE, install_essential_packages |-> FALSE,
     install_codecs |-> FALSE]

\* _init_config_from_args for the command lines of the model: no option,
\* --dry-run, -y, --dry-run -y, and -y with component options
RunConfigs ==
    { InstallationConfig,
      [InstallationConfig EXCEPT !.dry_run = TRUE],
      [InstallationConfig EXCEPT !.auto_yes = TRUE],
      [InstallationConfig EXCEPT !.dry_run = TRUE, !.auto_yes = TRUE],
      [InstallationConfig EXCEPT !.skip_update = TRUE, !.install_amd_drivers = TRUE,
                                 !.install_vm_tools = TRUE, !.install_steam = TRUE,
                                 !.install_ge_proton = TRUE, !.install_mangohud = TRUE,
                                 !.install_essential_packages = TRUE] }

\* what can go wrong at a point where run() waits for the outside world
FaultKinds == {"fail", "timeout", "nolaunch", "interrupt"}

\* e says which blocking point of a step meets which fault: the at-th one
NoFault == [at |-> 0, what |-> "default"]

\* the process a fault makes of a command or query
FaultProc(w) ==
    CASE w = "fail" -> ExitProc(100, << >>, host.apt_error)
      [] w = "timeout" -> TimeoutProc
      [] w = "nolaunch" -> NoLaunchProc("FileNotFoundError")
      [] w = "interrupt" -> InterruptProc

\* a command does its work and exits 0 unless it meets a fault
CommandProc(w) == IF w = "default" THEN Printed(<< >>) ELSE FaultProc(w)

\* a query answers from the package database unless it meets a fault
QueryProc(answer, w) == IF w = "default" THEN answer ELSE FaultProc(w)

\* the operator types the machine's usual answer unless something else
\* happens at the prompt: the opposite answer, an unrecognised line first,
\* end of input, or Ctrl-C
OperatorInput(w) ==
    CASE w = "default" -> <<Line(host.answer)>>
      [] w = "fail" -> <<Line(IF host.answer = <<"y">> THEN <<"N","O">> ELSE <<"Y","e","s">>)>>
      [] w = "timeout" -> <<Line(<<"m","a","y","b","e">>), Line(host.answer)>>
      [] w = "nolaunch" -> << >>
      [] w = "interrupt" -> <<Interrupt>>

-----------------------------------------------------------------------------
(* run(): the calls its steps make.  A step works on a session record c:   *)
(* the fields of self it changes, the effects so far, the exception being  *)
(* raised (c.raised, "none" when none; a call made while an exception is   *)
(* being raised does nothing, the code after a raise being skipped), the   *)
(* number of blocking points passed in this step (c.site), and the value   *)
(* of the last call: c.ans of a decision, c.ok and c.stderr of a command.  *)
(* c.hit is "command" when what goes wrong goes wrong in run_command.      *)

\* the session at the start of a step
Session ==
    [failed_operations |-> failed_operations, effects |-> effects,
     hardware_info |-> hardware_info, system_info |-> system_info,
     installation_state |-> installation_state, state_file |-> state_file,
     gpu_type |-> gpu_type, raised |-> "none", site |-> 0,
     ans |-> FALSE, ok |-> FALSE, stderr |-> << >>, hit |-> "other"]

\* statements in sequence: v is computed, then F works on it
Then(v, F(_)) == F(v)

\* what happens at the k-th blocking point from here
OutcomeAt(c, e, k) == IF e.at = c.site + k THEN e.what ELSE "default"

\* success, stdout, stderr = self.run_command(cmd, description, check, timeout)
call_run_command(c, e, description, check, timeout) ==
    IF c.raised # "none" THEN c
    ELSE Then(run_command(config, c.failed_operations, description, check,
                          timeout, CommandProc(OutcomeAt(c, e, 1))), LAMBDA r:
         [c EXCEPT !.failed_operations = r.failed_operations,
                   !.effects = IF r.spawned THEN Append(@, Spawn(description)) ELSE @,
                   !.raised = r.raised,
                   !.ok = r.raised = "none" /\ r.ret[1],
                   !.stderr = IF r.raised = "none" THEN r.ret[3] ELSE << >>,
                   !.hit = IF OutcomeAt(c, e, 1) # "default" THEN "command" ELSE @,
                   !.site = @ + 1])

\* self.run_command(cmd, description): check and timeout at their defaults
Cmd(c, e, description) == call_run_command(c, e, description, TRUE, DefaultTimeout)

\* self.run_command(cmd, description, check=False)
CmdNoCheck(c, e, description) == call_run_command(c, e, description, FALSE, DefaultTimeout)

\* for cmd, desc in commands: self.run_command(cmd, desc)
RECURSIVE Cmds(_, _, _)
Cmds(c, e, descriptions) ==
    IF descriptions = << >> THEN c
    ELSE Cmds(Cmd(c, e, <<descriptions[1]>>), e, Tail(descriptions))

\* self.confirm(question)
call_confirm(c, e, question) ==
    IF c.raised # "none" THEN c
    ELSE Then(confirm(config, OperatorInput(OutcomeAt(c, e, 1))), LAMBDA r:
         [c EXCEPT !.effects = @ \o Repeat(Read(question), r.reads),
                   !.raised = r.raised,
                   !.ans = r.ret,
                   !.site = @ + 1])

\* flag or self.confirm(question)
FlagOrConfirm(c, e, flag, question) ==
    IF c.raised # "none" THEN c
    ELSE IF flag THEN [c EXCEPT !.ans = TRUE]
    ELSE call_confirm(c, e, question)

\* self.prompt_install_or_update(software_name, package_name, flatpak_id)
call_prompt_install_or_update(c, e, software_name, package_name, flatpak_id) ==
    IF c.raised # "none" THEN c
    ELSE Then([dpkg_l |-> QueryProc(DpkgL(host.packages), OutcomeAt(c, e, 1)),
               dpkg_query |-> QueryProc(DpkgQuery(host.packages), OutcomeAt(c, e, 2)),
               apt_cache |-> QueryProc(AptCache(host.packages), OutcomeAt(c, e, 3)),
               flatpak_list |-> QueryProc(FlatpakList(host.packages), OutcomeAt(c, e, 4)),
               flatpak_info |-> QueryProc(FlatpakInfo(host.packages), OutcomeAt(c, e, 5))], LAMBDA q:
         Then(prompt_install_or_update(config, software_name, package_name,
                                       flatpak_id, q, OperatorInput(OutcomeAt(c, e, 6))), LAMBDA r:
         [c EXCEPT !.effects = @ \o r.probes \o Repeat(Read(r.question), r.reads),
                   !.raised = r.raised,
                   !.ans = r.ret,
                   !.site = @ + 6]))

\* flag or self.prompt_install_or_update(software_name, package_name=...)
FlagOrPromptPackage(c, e, flag, software_name, package_name) ==
    IF c.raised # "none" THEN c
    ELSE IF flag THEN [c EXCEPT !.ans = TRUE]
    ELSE call_prompt_install_or_update(c, e, <<software_name>>, package_name, None)

\* flag or self.prompt_install_or_update(software_name, flatpak_id=...)
FlagOrPromptFlatpak(c, e, flag, software_name, flatpak_id) ==
    IF c.raised # "none" THEN c
    ELSE IF flag THEN [c EXCEPT !.ans = TRUE]
    ELSE call_prompt_install_or_update(c, e, <<software_name>>, None, flatpak_id)

\* self.is_package_installed(package_name)
call_is_package_installed(c, e) ==
    IF c.raised # "none" THEN c
    ELSE [c EXCEPT !.effects = Append(@, Probe("is_package_installed", "dpkg")),
                   !.ans = is_package_installed(
                               QueryProc(DpkgL(host.packages), OutcomeAt(c, e, 1))),
                   !.site = @ + 1]

\* a tool a step runs with subprocess.run itself: c.ok says that it ran and
\* exited 0, and an exception that `catches` does not catch is raised
call_tool(c, e, who, tool, answer, catches(_)) ==
    IF c.raised # "none" THEN c
    ELSE Then(subprocess_run(QueryProc(answer, OutcomeAt(c, e, 1)), FALSE), LAMBDA r:
         [c EXCEPT !.effects = Append(@, Probe(who, tool)),
                       !.raised = IF r.exc = "none" \/ catches(r.exc) THEN "none" ELSE r.exc,
                       !.ok = r.exc = "none" /\ r.returncode = 0,
                       !.ans = r.exc = "none",
                       !.site = @ + 1])

\* a change the step makes to the filesystem itself (open(.., 'w'), mkdir,
\* chown, chmod, remove)
Fs(c, who, what) ==
    IF c.raised # "none" THEN c
    ELSE [c EXCEPT !.effects = Append(@, [kind |-> "fs", who |-> who, what |-> what])]

\* the end of a try block whose except clause catches what `catches` says
EndTry(c, catches(_)) ==
    IF c.raised # "none" /\ catches(c.raised) THEN [c EXCEPT !.raised = "none"] ELSE c

\* what the Flatpak installers do first: install flatpak if
\* is_package_installed("flatpak") says it is missing, then add the Flathub
\* remote with check=False
flathub_ready(c, e) ==
    Then(call_is_package_installed(c, e), LAMBDA c1:
    Then(IF c1.ans THEN c1 ELSE Cmd(c1, e, <<"Installing Flatpak">>), LAMBDA c2:
    CmdNoCheck(c2, e, <<"Adding Flathub repository">>)))

-----------------------------------------------------------------------------
(* run(): its steps, in the order run() takes them *)

\* the start of run(): the banner and
\* `if not self.config.auto_yes and not self.confirm(..)`; c.ans says go on
run_start(c, e) ==
    IF config.auto_yes THEN [c EXCEPT !.ans = TRUE]
    ELSE call_confirm(c, e, <<"Continue with installation?">>)

clean_broken_repos(c, e) ==
    Then(CmdNoCheck(c, e, <<"Testing repository configuration">>), LAMBDA c1:
    Then(IF host.broken_ppa /\ ~config.dry_run
         THEN Fs(Fs(c1, "clean_broken_repos",
                    <<"copy2", "/etc/apt/sources.list.d/lutris.list">>),
                 "clean_broken_repos",
                 <<"remove", "/etc/apt/sources.list.d/lutris.list">>)
         ELSE c1, LAMBDA c2:
    IF c1.raised # "none" \/ c1.ok THEN c1
    ELSE CmdNoCheck(c2, e, <<"Updating after repository cleanup">>)))

update_system(c, e) ==
    IF config.skip_update THEN c
    ELSE Cmds(c, e, <<"Updating package lists", "Upgrading installed packages",
                      "Removing unnecessary packages", "Cleaning package cache">>)

enable_32bit_support(c, e) ==
    Cmds(c, e, <<"Enabling i386 architecture", "Updating package lists">>)

\* detect_system re-raises what open('/etc/os-release') raises
detect_system(c, e) ==
    IF ~host.os_release.exists THEN [c EXCEPT !.raised = "FileNotFoundError"]
    ELSE [c EXCEPT !.system_info =
             [distro_name |-> Get(host.os_release.fields, "NAME", <<"Unknown">>),
              distro_version |-> Get(host.os_release.fields, "VERSION_ID", <<"U","n","k","n","o","w","n">>)]]

\* gpu_type = self.detect_gpu()
call_detect_gpu(c, e) ==
    Then(detect_gpu(host, c.hardware_info), LAMBDA r:
    [c EXCEPT !.effects = @ \o r.probes,
              !.hardware_info = r.hardware_info,
              !.gpu_type = IF r.raised = "none" THEN r.ret ELSE @,
              !.raised = r.raised])

\* vm_type = self.detect_virtualization(); c.ans says that vm_type is truthy
call_detect_virtualization(c, e) ==
    Then(detect_virtualization(host), LAMBDA r:
    [c EXCEPT !.effects = @ \o r.probes,
              !.ans = r.raised = "none" /\ Truthy(r.ret),
              !.raised = r.raised])

\* a generic installation that asks first
ask_generic_vm_graphics(c, e) ==
    Then(FlagOrConfirm(c, e, config.install_vm_tools, <<"Install generic graphics drivers?">>),
         LAMBDA d: IF d.ans THEN Cmd(d, e, <<"Installing generic VM graphics drivers">>) ELSE d)

install_generic_vm_graphics(c, e) == Cmd(c, e, <<"Installing generic VM graphics drivers">>)

\* install_vm_tools(vm_type) and the installer it dispatches to
install_vm_tools(c, e, vm_type) ==
    Then(Lower(vm_type), LAMBDA t:
    CASE Contains(t, <<"v","m","w","a","r","e">>) ->
            Cmd(c, e, <<"Installing VMware guest tools and graphics">>)
      [] Contains(t, <<"v","i","r","t","u","a","l","b","o","x">>) ->
            Cmd(c, e, <<"Installing VirtualBox guest additions">>)
      [] Contains(t, <<"k","v","m">>) \/ Contains(t, <<"q","e","m","u">>) ->
            Cmd(c, e, <<"Installing KVM/QEMU guest tools">>)
      [] Contains(t, <<"h","y","p","e","r","-","v">>) \/ Contains(t, <<"m","i","c","r","o","s","o","f","t">>) ->
            CmdNoCheck(c, e, <<"Installing Hyper-V guest tools">>)
      [] Contains(t, <<"x","e","n">>) ->
            CmdNoCheck(c, e, <<"Installing Xen guest tools">>)
      [] OTHER -> install_generic_vm_graphics(c, e))

\* nvidia-smi as the installer and the summary run it: inside try, with a
\* bare except
call_nvidia_smi(c, e, who) == call_tool(c, e, who, "nvidia-smi", host.nvidia_smi, BareExcept)

install_nvidia_drivers(c, e) ==
    Then(call_is_package_installed(c, e), LAMBDA p1:
    Then(IF p1.ans THEN p1 ELSE call_is_package_installed(p1, e), LAMBDA p2:
    Then(IF p2.ans THEN p2 ELSE call_is_package_installed(p2, e), LAMBDA p3:
    Then(call_nvidia_smi(p3, e, "install_nvidia_drivers"), LAMBDA smi:
    \* the driver answered, or nvidia-smi raised: ask; it exited non-zero: go on
    Then(IF smi.ok \/ ~smi.ans
         THEN call_confirm(smi, e, <<"Reinstall NVIDIA drivers?">>)
         ELSE [smi EXCEPT !.ans = TRUE], LAMBDA asked:
    Then(IF p3.ans THEN asked ELSE [p3 EXCEPT !.ans = TRUE], LAMBDA go:
    IF go.ans
    THEN Cmds(go, e, <<"Installing driver manager",
                       "Installing recommended NVIDIA drivers",
                       "Installing NVIDIA utilities">>)
    ELSE go))))))

install_amd_drivers(c, e) == Cmd(c, e, <<"Installing AMD Mesa and Vulkan drivers">>)

install_intel_drivers(c, e) == Cmd(c, e, <<"Installing Intel graphics drivers">>)

\* a test that the flag of a class passes as well
gpu_type_or_flag(g, name) ==
    \/ g = name
    \/ name = <<"a","m","d">> /\ config.install_amd_drivers
    \/ name = <<"i","n","t","e","l">> /\ config.install_intel_drivers
    \/ name = <<"n","v","i","d","i","a">> /\ config.install_nvidia_drivers

\* `elif gpu_type == name`
gpu_type_is(g, name) == g = name

\* the driver step of run(): the branch gpu_type selects
install_drivers(c, e) ==
    Then(c.gpu_type, LAMBDA g:
    CASE g \in { <<"v","m","w","a","r","e">>, <<"v","i","r","t","u","a","l","b","o","x">>, <<"k","v","m","/","q","e","m","u">>, <<"v","m">> } ->
            Then(FlagOrConfirm(c, e, config.install_vm_tools,
                     <<"Install ">> \o g \o <<" guest tools for better graphics performance?">>),
                 LAMBDA d: IF d.ans THEN install_vm_tools(d, e, g) ELSE d)
      [] gpu_type_is(g, <<"n","v","i","d","i","a">>) ->
            Then(FlagOrConfirm(c, e, config.install_nvidia_drivers, <<"Install NVIDIA drivers?">>),
                 LAMBDA d: IF d.ans THEN install_nvidia_drivers(d, e) ELSE d)
      [] gpu_type_is(g, <<"a","m","d">>) ->
            Then(FlagOrConfirm(c, e, config.install_amd_drivers, <<"Install AMD drivers?">>),
                 LAMBDA d: IF d.ans THEN install_amd_drivers(d, e) ELSE d)
      [] gpu_type_is(g, <<"i","n","t","e","l">>) ->
            Then(FlagOrConfirm(c, e, config.install_intel_drivers, <<"Install Intel drivers?">>),
                 LAMBDA d: IF d.ans THEN install_intel_drivers(d, e) ELSE d)
      [] gpu_type_is(g, <<"g","e","n","e","r","i","c">>) -> install_generic_vm_graphics(c, e)
      [] OTHER -> c)

install_essential_packages(c, e) ==
    Then(CmdNoCheck(c, e, <<"Installing essential packages">>), LAMBDA c1:
    IF c1.raised = "none" /\ ~c1.ok
       /\ Contains(c1.stderr, <<"has no installation candidate">>)
    THEN CmdNoCheck(c1, e, <<"Installing core essential packages">>)
    ELSE c1)

\* the essential-packages step of run()
essential_packages_step(c, e) ==
    Then(FlagOrConfirm(c, e, config.install_essential_packages,
                       <<"Install essential gaming packages?">>), LAMBDA d:
    IF d.ans THEN install_essential_packages(d, e) ELSE d)

install_codecs(c, e) ==
    Then(call_confirm(c, e, <<"Install multimedia codecs?">>), LAMBDA d:
    IF d.ans
    THEN Cmd(CmdNoCheck(d, e, <<"Pre-accepting Microsoft fonts EULA">>), e,
             <<"Installing Ubuntu restricted extras (codecs)">>)
    ELSE d)

install_heroic(c, e) ==
    Cmds(c, e, <<"Installing Flatpak", "Adding Flathub repository",
                 "Installing Heroic Games Launcher">>)

install_gaming_platforms(c, e) ==
    Then(FlagOrPromptPackage(c, e, config.install_steam, "Steam", <<"s","t","e","a","m","-","i","n","s","t","a","l","l","e","r">>), LAMBDA s1:
    Then(IF s1.ans THEN Cmd(s1, e, <<"Installing Steam">>) ELSE s1, LAMBDA s2:
    Then(FlagOrPromptFlatpak(s2, e, config.install_lutris, "Lutris", <<"n","e","t",".","l","u","t","r","i","s",".","L","u","t","r","i","s">>), LAMBDA l1:
    Then(IF l1.ans THEN Cmd(flathub_ready(l1, e), e, <<"Installing Lutris">>) ELSE l1, LAMBDA l2:
    Then(FlagOrPromptPackage(l2, e, config.install_gamemode, "GameMode", <<"g","a","m","e","m","o","d","e">>), LAMBDA g1:
    Then(IF g1.ans
         THEN Cmd(g1, e, <<"Installing GameMode with 32-bit and 64-bit libraries">>)
         ELSE g1, LAMBDA g2:
    Then(FlagOrPromptFlatpak(g2, e, config.install_heroic, "Heroic Games Launcher",
                             <<"c","o","m",".","h","e","r","o","i","c","g","a","m","e","s","l","a","u","n","c","h","e","r",".","h","g","l">>), LAMBDA h1:
    IF h1.ans THEN install_heroic(h1, e) ELSE h1)))))))

\* one request to the GitHub API (urllib.request.urlopen): it answers, or
\* raises URLError, or is interrupted
urlopen(c, e) ==
    IF c.raised # "none" THEN c
    ELSE Then(OutcomeAt(c, e, 1), LAMBDA w:
         [c EXCEPT !.effects = Append(@, [kind |-> "net", who |-> "install_ge_proton",
                                          what |-> <<"GET", "api.github.com/repos/GloriousEggroll/proton-ge-custom/releases/latest">>]),
                   !.raised = CASE w = "default" -> "none"
                                [] w = "interrupt" -> "KeyboardInterrupt"
                                [] OTHER -> "URLError",
                   !.site = @ + 1])

install_ge_proton(c, e) ==
    Then(urlopen(c, e), LAMBDA c1:
    Then(Fs(c1, "install_ge_proton", <<"mkdir", "~/.steam/root/compatibilitytools.d">>), LAMBDA c2:
    Then(Cmd(call_run_command(c2, e, <<"Downloading GE-Proton">>, TRUE, DownloadTimeout), e,
             <<"Extracting GE-Proton">>), LAMBDA c3:
    Then(Fs(Fs(c3, "install_ge_proton", <<"chown", "~/.steam/root/compatibilitytools.d">>),
            "install_ge_proton", <<"remove", "/tmp/GE-Proton.tar.gz">>), LAMBDA c4:
    EndTry(IF host.github # "asset" THEN c1
           ELSE IF config.dry_run THEN c2
           ELSE c4,
           IsException)))))

install_wine_proton(c, e) ==
    Then(FlagOrPromptPackage(c, e, config.install_wine, "Wine (Windows compatibility)",
                             <<"w","i","n","e","h","q","-","s","t","a","g","i","n","g">>), LAMBDA w1:
    Then(IF w1.ans
         THEN Cmds(w1, e, <<"Creating keyring directory", "Downloading WineHQ key",
                            "Adding WineHQ repository", "Updating package lists",
                            "Installing Wine Staging">>)
         ELSE w1, LAMBDA w2:
    Then(FlagOrPromptPackage(w2, e, config.install_winetricks,
                             "Winetricks (Wine configuration tool)", <<"w","i","n","e","t","r","i","c","k","s">>), LAMBDA t1:
    Then(IF t1.ans THEN Cmd(t1, e, <<"Installing Winetricks">>) ELSE t1, LAMBDA t2:
    Then(FlagOrPromptFlatpak(t2, e, config.install_protonup,
                             "ProtonUp-Qt (Proton version manager)", <<"n","e","t",".","d","a","v","i","d","o","t","e","k",".","p","u","p","g","u","i","2">>), LAMBDA p1:
    Then(IF p1.ans THEN Cmd(p1, e, <<"Installing ProtonUp-Qt">>) ELSE p1, LAMBDA p2:
    Then(FlagOrConfirm(p2, e, config.install_ge_proton, <<"Install GE-Proton (latest)?">>), LAMBDA g1:
    IF g1.ans THEN install_ge_proton(g1, e) ELSE g1)))))))

install_sober(c, e) ==
    Then(FlagOrPromptFlatpak(c, e, config.install_sober, "Sober (Roblox on Linux)",
                             <<"o","r","g",".","v","i","n","e","g","a","r","h","q",".","S","o","b","e","r">>), LAMBDA d:
    IF d.ans THEN CmdNoCheck(flathub_ready(d, e), e, <<"Installing Sober">>) ELSE d)

install_waydroid(c, e) ==
    Then(FlagOrConfirm(c, e, config.install_waydroid,
                       <<"Install Waydroid (Android container)?">>), LAMBDA a:
    Then(call_confirm(a, e, <<"Continue with Waydroid installation?">>), LAMBDA b:
    Then(IF host.wayland THEN b ELSE call_confirm(b, e, <<"Install anyway?">>), LAMBDA d:
    IF ~a.ans THEN a
    ELSE IF ~b.ans THEN b
    ELSE IF ~d.ans THEN d
    ELSE CmdNoCheck(CmdNoCheck(CmdNoCheck(d, e, <<"Adding Waydroid repository">>), e,
                               <<"Updating package lists">>), e,
                    <<"Installing Waydroid">>))))

install_discord(c, e) ==
    Then(FlagOrPromptFlatpak(c, e, config.install_discord, "Discord",
                             <<"c","o","m",".","d","i","s","c","o","r","d","a","p","p",".","D","i","s","c","o","r","d">>), LAMBDA d:
    IF d.ans THEN Cmd(d, e, <<"Installing Discord">>) ELSE d)

install_obs(c, e) ==
    Then(FlagOrPromptPackage(c, e, config.install_obs,
                             "OBS Studio (for streaming/recording)", <<"o","b","s","-","s","t","u","d","i","o">>), LAMBDA d:
    IF d.ans
    THEN Cmds(d, e, <<"Adding OBS PPA", "Updating package lists", "Installing OBS Studio">>)
    ELSE d)

install_mumble(c, e) ==
    Then(FlagOrConfirm(c, e, config.install_mumble, <<"Install Mumble (voice chat)?">>), LAMBDA d:
    IF d.ans THEN Cmd(d, e, <<"Installing Mumble">>) ELSE d)

IsDigits(s) == \A i \in 1..Len(s) : s[i] \in {"0","1","2","3","4","5","6","7","8","9"}

DigitValue(ch) ==
    CASE ch = "0" -> 0 [] ch = "1" -> 1 [] ch = "2" -> 2 [] ch = "3" -> 3 [] ch = "4" -> 4
      [] ch = "5" -> 5 [] ch = "6" -> 6 [] ch = "7" -> 7 [] ch = "8" -> 8 [] ch = "9" -> 9

\* the number a string of digits writes
RECURSIVE Num(_)
Num(s) == IF s = << >> THEN 0 ELSE 10 * Num(SubSeq(s, 1, Len(s) - 1)) + DigitValue(s[Len(s)])

RECURSIVE Pow10(_)
Pow10(n) == IF n = 0 THEN 1 ELSE 10 * Pow10(n - 1)

\* install_mangohud's test of distro_version:
\*   float(v.split('.')[0] + '.' + v.split('.')[1]) >= 24.04
\* "yes", "no", or the exception the expression raises (float() of digits
\* around the point; any other text is a ValueError here)
version_at_least_2404(version) ==
    LET parts == Split(version, ".") IN
    IF Len(parts) < 2 THEN "IndexError"
    ELSE LET a == parts[1]
             b == parts[2]
         IN  IF ~IsDigits(a) \/ ~IsDigits(b) \/ (a = << >> /\ b = << >>) THEN "ValueError"
             ELSE IF Num(a) > 24 \/ (Num(a) = 24 /\ Num(b) * 100 >= 4 * Pow10(Len(b)))
                  THEN "yes" ELSE "no"

\* the last resort of install_mangohud: the PPA
mangohud_from_ppa(c, e) ==
    Then(CmdNoCheck(c, e, <<"Adding MangoHud PPA">>), LAMBDA p:
    IF p.ok
    THEN CmdNoCheck(CmdNoCheck(p, e, <<"Updating package lists">>), e,
                    <<"Installing MangoHud from PPA">>)
    ELSE p)

install_mangohud(c, e) ==
    Then(FlagOrConfirm(c, e, config.install_mangohud,
                       <<"Install MangoHud (performance overlay)?">>), LAMBDA d:
    Then(CmdNoCheck(d, e, <<"Installing MangoHud from default repos">>), LAMBDA m:
    \* the try block: on 24.04 and later refresh and install again
    Then(CmdNoCheck(Cmd(m, e, <<"Refreshing package lists">>), e,
                    <<"Installing MangoHud after update">>), LAMBDA t:
    IF ~d.ans THEN d
    ELSE IF m.raised # "none" THEN m
    ELSE IF m.ok THEN CmdNoCheck(m, e, <<"Installing Goverlay (optional)">>)
    ELSE IF version_at_least_2404(c.system_info.distro_version) = "yes"
         THEN IF t.raised = "none" THEN t
              ELSE mangohud_from_ppa(EndTry(t, BareExcept), e)
         ELSE mangohud_from_ppa(m, e))))

install_goverlay(c, e) ==
    Then(FlagOrConfirm(c, e, config.install_goverlay, <<"Install Goverlay (MangoHud GUI)?">>), LAMBDA d:
    IF d.ans THEN CmdNoCheck(d, e, <<"Installing Goverlay">>) ELSE d)

install_greenwithenv(c, e) ==
    Then(FlagOrPromptFlatpak(c, e, config.install_greenwithenv,
                             "GreenWithEnvy (NVIDIA GPU control)", <<"c","o","m",".","l","e","i","n","a","r","d","i",".","g","w","e">>), LAMBDA d:
    Then(IF c.hardware_info.gpu_vendor # "NVIDIA"
         THEN call_confirm(d, e, <<"Install anyway?">>)
         ELSE d, LAMBDA a:
    IF ~d.ans THEN d
    ELSE IF ~a.ans THEN a
    ELSE CmdNoCheck(flathub_ready(a, e), e, <<"Installing GreenWithEnvy">>)))

\* the write of vkBasalt.conf
WriteVkBasaltConf ==
    [kind |-> "fs", who |-> "install_vkbasalt", what |-> <<"write", "~/.config/vkBasalt/vkBasalt.conf">>]

install_vkbasalt(c, e) ==
    Then(FlagOrConfirm(c, e, config.install_vkbasalt,
                       <<"Install vkBasalt (Vulkan post-processing)?">>), LAMBDA d:
    Then(CmdNoCheck(d, e, <<"Installing vkBasalt from default repos">>), LAMBDA i1:
    Then(IF i1.ok THEN i1
         ELSE CmdNoCheck(i1, e, <<"Installing vkBasalt with 32-bit support">>), LAMBDA i2:
    Then(         host.vkbasalt_conf \/ \E i \in 1..Len(c.effects) : c.effects[i] = WriteVkBasaltConf, LAMBDA config_file_exists:
    Then(Fs(i2, "install_vkbasalt", <<"mkdir", "~/.config/vkBasalt">>), LAMBDA f1:
    Then(Fs(f1, WriteVkBasaltConf.who, WriteVkBasaltConf.what), LAMBDA f2:
    Then(Fs(Fs(f2, "install_vkbasalt", <<"chown", "~/.config/vkBasalt">>),
            "install_vkbasalt", <<"chown", "~/.config/vkBasalt/vkBasalt.conf">>), LAMBDA f3:
    IF ~d.ans THEN d
    ELSE IF i2.raised # "none" \/ ~i2.ok THEN i2
    ELSE IF ~config_file_exists /\ ~config.dry_run THEN f3
    ELSE i2)))))))

show_reshade_info(c, e) ==
    Then(FlagOrConfirm(c, e, config.install_reshade_setup,
                       <<"Show ReShade setup information?">>), LAMBDA d:
    Then(call_confirm(d, e, <<"Install vkBasalt now?">>), LAMBDA a:
    IF ~d.ans THEN d
    ELSE IF a.ans THEN install_vkbasalt(a, e)
    ELSE a))

install_mod_managers(c, e) ==
    Then(FlagOrConfirm(c, e, config.install_mod_managers,
                       <<"Install mod management tools?">>), LAMBDA d:
    Then(call_confirm(d, e, <<"Install Mod Organizer 2 (via Lutris)?">>), LAMBDA m1:
    Then(call_confirm(m1, e, <<"Show Vortex Mod Manager information?">>), LAMBDA m2:
    Then(call_confirm(m2, e, <<"Install r2modman (Risk of Rain 2, Valheim mods)?">>), LAMBDA m3:
    IF ~d.ans THEN d
    ELSE IF m3.ans THEN CmdNoCheck(flathub_ready(m3, e), e, <<"Installing r2modman">>)
    ELSE m3))))

optimize_system(c, e) ==
    Then(call_confirm(c, e, <<"Apply gaming optimizations?">>), LAMBDA d:
    Then(IF config.dry_run THEN d
         ELSE Cmd(Fs(d, "optimize_system", <<"write", "/etc/sysctl.d/99-gaming.conf">>), e,
                  <<"Applying sysctl optimizations">>), LAMBDA o:
    Then(call_confirm(o, e, <<"Set CPU governor to performance mode?">>), LAMBDA g:
    Then(Cmd(g, e, <<"Installing CPU frequency utilities">>), LAMBDA g1:
    Then(IF config.dry_run THEN g1
         ELSE Cmds(Fs(g1, "optimize_system",
                      <<"write", "/etc/systemd/system/cpu-performance.service">>), e,
                   <<"Reloading systemd", "Enabling performance governor service">>), LAMBDA g2:
    IF ~d.ans THEN d
    ELSE IF g.ans THEN g2
    ELSE g)))))

\* a call outside any try block: nothing is caught
NoExcept(x) == FALSE

\* subprocess.run(["which", tool]): no timeout is set, so none can expire
call_which(c, e) ==
    call_tool(c, IF e.what = "timeout" THEN NoFault ELSE e, "configure_cpufreq_sudo", "which",
              IF host.cpupower THEN Printed(<<"/usr/bin/cpupower">>) ELSE ExitProc(1, << >>, << >>),
              NoExcept)

configure_cpufreq_sudo(c, e) ==
    Then(call_which(c, e), LAMBDA w1:
    Then(call_which(w1, e), LAMBDA w2:
    Then(IF w1.ok \/ w2.ok THEN w2
         ELSE Cmd(w2, e, <<"Installing CPU power management tools">>), LAMBDA i:
    Then(Fs(Fs(i, "configure_cpufreq_sudo", <<"write", "/etc/sudoers.d/gaming-cpufreq">>),
            "configure_cpufreq_sudo", <<"chmod", "/etc/sudoers.d/gaming-cpufreq">>), LAMBDA f:
    Then(call_tool(f, e, "configure_cpufreq_sudo", "visudo", Printed(<< >>), NoExcept), LAMBDA v:
    Then(IF v.raised = "none" /\ ~v.ok
         THEN Fs(v, "configure_cpufreq_sudo", <<"unlink", "/etc/sudoers.d/gaming-cpufreq">>)
         ELSE v, LAMBDA u:
    IF config.dry_run THEN i ELSE EndTry(u, IsException)))))))

create_performance_script(c, e) ==
    Then(call_confirm(c, e, <<"Create gaming performance launcher script?">>), LAMBDA d:
    Then(IF config.dry_run THEN d
         ELSE Fs(Fs(Fs(d, "create_performance_script", <<"write", "~/launch-game.sh">>),
                    "create_performance_script", <<"chmod", "~/launch-game.sh">>),
                 "create_performance_script", <<"chown", "~/launch-game.sh">>), LAMBDA u:
    Then(call_confirm(u, e, <<"Also install system-wide as 'launch-game' command?">>), LAMBDA s:
    Then(IF s.ans /\ ~config.dry_run
         THEN Fs(Fs(s, "create_performance_script", <<"write", "/usr/local/bin/launch-game">>),
                 "create_performance_script", <<"chmod", "/usr/local/bin/launch-game">>)
         ELSE s, LAMBDA s1:
    Then(call_confirm(s1, e, <<"Configure passwordless sudo for CPU governor? (Recommended)">>), LAMBDA p:
    IF ~d.ans THEN d
    ELSE IF p.ans THEN configure_cpufreq_sudo(p, e)
    ELSE p)))))

\* if self.is_package_installed(p): version = self.get_package_version(p),
\* for n packages
RECURSIVE summary_packages(_, _, _)
summary_packages(c, e, n) ==
    IF n = 0 THEN c
    ELSE Then(call_is_package_installed(c, e), LAMBDA i:
         Then(IF i.ans
              THEN call_tool(i, e, "get_package_version", "dpkg-query",
                             DpkgQuery(host.packages), BareExcept)
              ELSE i, LAMBDA v:
         summary_packages(v, e, n - 1)))

\* if self.is_flatpak_installed(a): version = self.get_flatpak_version(a),
\* for the applications a of app_ids
RECURSIVE summary_flatpaks(_, _, _)
summary_flatpaks(c, e, app_ids) ==
    IF app_ids = << >> THEN c
    ELSE Then(is_flatpak_installed(app_ids[1],
                  QueryProc(FlatpakList(host.packages), OutcomeAt(c, e, 1))), LAMBDA listed:
         Then([c EXCEPT !.effects = Append(@, Probe("is_flatpak_installed", "flatpak")),
                        !.site = @ + 1], LAMBDA i:
         Then(IF listed
              THEN call_tool(i, e, "get_flatpak_version", "flatpak",
                             FlatpakInfo(host.packages), BareExcept)
              ELSE i, LAMBDA v:
         summary_flatpaks(v, e, Tail(app_ids)))))

\* the packages show_installation_summary looks up: three driver packages,
\* five components, five new components
SummaryPackages == 13

show_installation_summary(c, e) ==
    summary_flatpaks(
        summary_packages(call_nvidia_smi(c, e, "show_installation_summary"), e, SummaryPackages),
        e,
        << <<"n","e","t",".","l","u","t","r","i","s",".","L","u","t","r","i","s">>, <<"c","o","m",".","h","e","r","o","i","c","g","a","m","e","s","l","a","u","n","c","h","e","r",".","h","g","l">>, <<"n","e","t",".","d","a","v","i","d","o","t","e","k",".","p","u","p","g","u","i","2">>,
           <<"c","o","m",".","d","i","s","c","o","r","d","a","p","p",".","D","i","s","c","o","r","d">>, <<"o","r","g",".","v","i","n","e","g","a","r","h","q",".","S","o","b","e","r">>, <<"c","o","m",".","l","e","i","n","a","r","d","i",".","g","w","e">> >>)

\* run(): os.chown(LOG_FILE, uid, gid) unless dry_run
chown_log_file(c, e) ==
    IF config.dry_run THEN c ELSE Fs(c, "run", <<"chown", "LOG_FILE">>)

\* a save that writes the file in dry-run as well
SaveGuardAlways(cfg) == TRUE

\* `if not self.config.dry_run` of save_installation_state
SaveGuard(cfg) == ~cfg.dry_run

save_installation_state(c, e) ==
    Then(Put(Put(Put(c.installation_state, "last_updated", host.now),
                 "distro", c.system_info.distro_name),
             "version", c.system_info.distro_version), LAMBDA st:
    Then([c EXCEPT !.installation_state = st], LAMBDA c1:
    IF ~SaveGuard(config) THEN c1
    ELSE Fs(Fs([c1 EXCEPT !.state_file = [exists |-> TRUE, data |-> st]],
               "save_installation_state", <<"write", "STATE_FILE">>),
            "save_installation_state", <<"chown", "STATE_FILE">>)))

final_steps(c, e) ==
    Then(call_detect_virtualization(c, e), LAMBDA v:
    Then(call_confirm(v, e, <<"Reboot now?">>), LAMBDA r:
    IF r.ans THEN Cmd(r, e, <<"Rebooting system">>) ELSE r))

-----------------------------------------------------------------------------
(* run() as a state machine: one action per step of run().  In each step   *)
(* at most one blocking point meets a fault, and at most MaxFaults steps   *)
(* of a run do.                                                            *)

\* the state after the constructor: load_installation_state has read
\* STATE_FILE, nothing has run yet
InitRun ==
    /\ config \in RunConfigs
    /\ host \in RunHosts
    /\ failed_operations = << >>
    /\ hardware_info = [gpu_vendor |-> "UNKNOWN", vm_type |-> "NONE"]
    /\ effects = << >>
    /\ call = NoCall
    /\ ncalls = 0
    /\ pc = "start"
    /\ system_info = [distro_name |-> <<"Unknown">>, distro_version |-> <<"U","n","k","n","o","w","n">>]
    /\ installation_state = IF host.state_file.exists THEN host.state_file.data ELSE << >>
    /\ state_file = host.state_file
    /\ gpu_type = None
    /\ faults = << >>

\* the faults a step can meet: any kind, at any blocking point the step
\* reaches, while the run has met fewer than MaxFaults
Envs(F(_, _)) ==
    {NoFault} \cup
    IF Len(faults) < MaxFaults
    THEN { [at |-> k, what |-> w] : k \in 1..F(Session, NoFault).site, w \in FaultKinds }
    ELSE {}

\* the session a step leaves becomes the state
Commit(c) ==
    /\ failed_operations' = c.failed_operations
    /\ effects' = c.effects
    /\ hardware_info' = c.hardware_info
    /\ system_info' = c.system_info
    /\ installation_state' = c.installation_state
    /\ state_file' = c.state_file
    /\ gpu_type' = c.gpu_type
    /\ UNCHANGED <<config, host, call, ncalls>>

\* where run() is after a step: its `except KeyboardInterrupt` and
\* `except Exception` clauses end the run with sys.exit(1)
After(c, next) ==
    IF c.raised = "KeyboardInterrupt" THEN "interrupted"
    ELSE IF c.raised # "none" THEN "error"
    ELSE next

\* the step `here` of run() is taken, F being what it does
Step(here, next, F(_, _)) ==
    /\ pc = here
    /\ \E e \in Envs(F) : \E c \in {F(Session, e)} :
          /\ e.at # 0 => [c EXCEPT !.hit = "other"] # F(Session, NoFault)
          /\ faults' = IF e.at # 0
                       THEN Append(faults, [step |-> here, at |-> e.at, what |-> e.what,
                                            hit |-> c.hit])
                       ELSE faults
          /\ Commit(c)
          /\ pc' = After(c, next)

\* the banner and the first confirmation, outside the try block: a negative
\* answer ends the run with sys.exit(0)
Start ==
    /\ pc = "start"
    /\ \E e \in Envs(run_start) : \E c \in {run_start(Session, e)} :
          /\ e.at # 0 => [c EXCEPT !.hit = "other"] # run_start(Session, NoFault)
          /\ faults' = IF e.at # 0
                       THEN Append(faults, [step |-> "start", at |-> e.at, what |-> e.what,
                                            hit |-> c.hit])
                       ELSE faults
          /\ Commit(c)
          /\ pc' = IF c.raised # "none" THEN "interrupted"
                   ELSE IF c.ans THEN "clean_broken_repos" ELSE "cancelled"

CleanBrokenRepos == Step("clean_broken_repos", "update_system", clean_broken_repos)

UpdateSystem == Step("update_system", "enable_32bit_support", update_system)

Enable32BitSupport == Step("enable_32bit_support", "detect_system", enable_32bit_support)

DetectSystem == Step("detect_system", "detect_gpu", detect_system)

DetectGpu == Step("detect_gpu", "install_drivers", call_detect_gpu)

InstallDrivers == Step("install_drivers", "install_essential_packages", install_drivers)

InstallEssentialPackages ==
    Step("install_essential_packages", "install_codecs", essential_packages_step)

InstallCodecs == Step("install_codecs", "install_gaming_platforms", install_codecs)

InstallGamingPlatforms ==
    Step("install_gaming_platforms", "install_wine_proton", install_gaming_platforms)

InstallWineProton == Step("install_wine_proton", "install_sober", install_wine_proton)

InstallSober == Step("install_sober", "install_waydroid", install_sober)

InstallWaydroid == Step("install_waydroid", "install_discord", install_waydroid)

InstallDiscord == Step("install_discord", "install_obs", install_discord)

InstallObs == Step("install_obs", "install_mumble", install_obs)

InstallMumble == Step("install_mumble", "install_mangohud", install_mumble)

InstallMangohud == Step("install_mangohud", "install_goverlay", install_mangohud)

InstallGoverlay == Step("install_goverlay", "install_greenwithenv", install_goverlay)

InstallGreenWithEnvy == Step("install_greenwithenv", "install_vkbasalt", install_greenwithenv)

InstallVkBasalt == Step("install_vkbasalt", "show_reshade_info", install_vkbasalt)

ShowReshadeInfo == Step("show_reshade_info", "install_mod_managers", show_reshade_info)

InstallModManagers == Step("install_mod_managers", "optimize_system", install_mod_managers)

OptimizeSystem == Step("optimize_system", "create_performance_script", optimize_system)

CreatePerformanceScript ==
    Step("create_performance_script", "show_installation_summary", create_performance_script)

ShowInstallationSummary ==
    Step("show_installation_summary", "chown_log_file", show_installation_summary)

ChownLogFile == Step("chown_log_file", "save_installation_state", chown_log_file)

SaveInstallationState == Step("save_installation_state", "final_steps", save_installation_state)

FinalSteps == Step("final_steps", "done", final_steps)

NextRun ==
    \/ Start
    \/ CleanBrokenRepos
    \/ UpdateSystem
    \/ Enable32BitSupport
    \/ DetectSystem
    \/ DetectGpu
    \/ InstallDrivers
    \/ InstallEssentialPackages
    \/ InstallCodecs
    \/ InstallGamingPlatforms
    \/ InstallWineProton
    \/ InstallSober
    \/ InstallWaydroid
    \/ InstallDiscord
    \/ InstallObs
    \/ InstallMumble
    \/ InstallMangohud
    \/ InstallGoverlay
    \/ InstallGreenWithEnvy
    \/ InstallVkBasalt
    \/ ShowReshadeInfo
    \/ InstallModManagers
    \/ OptimizeSystem
    \/ CreatePerformanceScript
    \/ ShowInstallationSummary
    \/ ChownLogFile
    \/ SaveInstallationState
    \/ FinalSteps

SpecRun == InitRun /\ [][NextRun]_vars

-----------------------------------------------------------------------------
(* The state file over several sessions: the constructor loads it, the end *)
(* of run() saves it.  A clock reading is <<t>>: datetime.now().isoformat() *)
(* gives strings of one width, ordered as the instants t they stand for.   *)

\* load_installation_state: the dict read from STATE_FILE, self's empty
\* dict when there is no file
load_installation_state(file) == IF file.exists THEN file.data ELSE << >>

\* state files earlier sessions or other tools can have left
EarlierFiles ==
    { [exists |-> FALSE, data |-> << >>] }
    \cup { [exists |-> TRUE,
            data |-> [last_updated |-> <<t>>, distro |-> <<"Ubuntu">>,
                      version |-> <<"2","2",".","0","4">>]] : t \in 1..MaxInstant }
    \cup { [exists |-> TRUE,
            data |-> [last_updated |-> <<t>>, distro |-> <<"Ubuntu">>,
                      version |-> <<"2","2",".","0","4">>,
                      steam |-> <<"installed">>]] : t \in 1..MaxInstant }

\* what detect_system can have found
SystemInfos ==
    { [distro_name |-> <<"Ubuntu">>, distro_version |-> <<"2","4",".","0","4">>],
      [distro_name |-> <<"Debian GNU/Linux">>, distro_version |-> <<"1","2">>] }

InitStore ==
    /\ config \in { c \in RunConfigs : ~c.auto_yes }
    /\ failed_operations = << >>
    /\ hardware_info = [gpu_vendor |-> "UNKNOWN", vm_type |-> "NONE"]
    /\ effects = << >>
    /\ host = [now |-> <<1>>]
    /\ call = NoCall
    /\ ncalls = 0
    /\ pc = "idle"
    /\ system_info = [distro_name |-> <<"Unknown">>, distro_version |-> <<"U","n","k","n","o","w","n">>]
    /\ installation_state = << >>
    /\ state_file \in EarlierFiles
    /\ gpu_type = None
    /\ faults = << >>

\* a session starts: __init__ calls load_installation_state, and run()
\* gets as far as detect_system; the clock shows t while the session lasts,
\* a reading other than the one the file was written at (the clock can be
\* set back, and local time repeats an hour when daylight saving ends)
LoadInstallationStateCall ==
    /\ pc = "idle"
    /\ ncalls < MaxCalls
    /\ installation_state' = load_installation_state(state_file)
    /\ system_info' \in SystemInfos
    /\ \E t \in 1..MaxInstant :
          /\ state_file.exists => state_file.data["last_updated"] # <<t>>
          /\ host' = [host EXCEPT !.now = <<t>>]
    /\ pc' = "loaded"
    /\ UNCHANGED <<config, failed_operations, hardware_info, effects, call, ncalls,
                   state_file, gpu_type, faults>>

\* the session reaches save_installation_state
SaveInstallationStateCall ==
    /\ pc = "loaded"
    /\ \E c \in {save_installation_state([Session EXCEPT !.effects = << >>], NoFault)} :
          /\ installation_state' = c.installation_state
          /\ state_file' = c.state_file
          /\ effects' = c.effects
    /\ pc' = "idle"
    /\ ncalls' = ncalls + 1
    /\ UNCHANGED <<config, failed_operations, hardware_info, host, call, system_info,
                   gpu_type, faults>>

NextStore == LoadInstallationStateCall \/ SaveInstallationStateCall

SpecStore == InitStore /\ [][NextStore]_vars

-----------------------------------------------------------------------------
(* Claims about the command executor *)

\* the last call was a run_command call that returned to its caller
RunCommandReturned == call.op = "run_command" /\ call.raised = "none"

\* C1 (as claimed): every run_command call that ends in a non-Success outcome
\* appends exactly one entry, which references the description, to
\* failed_operations, whatever check is; a call that ends in Success appends
\* nothing.
C1_EveryFailureInLedger ==
    RunCommandReturned =>
        IF call.ret[1]
        THEN failed_operations = call.ledger_before
        ELSE /\ Len(failed_operations) = Len(call.ledger_before) + 1
             /\ SubSeq(failed_operations, 1, Len(call.ledger_before)) = call.ledger_before
             /\ Contains(failed_operations[Len(failed_operations)], call.description)

\* C2: with dry_run true run_command spawns nothing, returns (True, "", "")
\* and leaves failed_operations as it was, whatever the command would do.
C2_DryRunNoSpawn ==
    (call.op = "run_command" /\ config.dry_run) =>
        /\ call.raised = "none"
        /\ call.ret = <<TRUE, << >>, << >>>>
        /\ effects = call.effects_before
        /\ failed_operations = call.ledger_before

\* a dry-run call of a command that could not have been launched
C2_Witness ==
    /\ call.op = "run_command"
    /\ config.dry_run
    /\ call.proc.kind = "nolaunch"

-----------------------------------------------------------------------------
(* Claims about detect_virtualization *)

\* the tools the last call invoked, in order
Invoked == SubSeq(effects, Len(call.effects_before) + 1, Len(effects))

\* the tools a call of detect_virtualization may invoke, in probe order
ProbeOrder ==
    << Probe("detect_virtualization", "systemd-detect-virt"),
       Probe("detect_virtualization", "dmesg"),
       Probe("detect_virtualization", "lspci") >>

\* a tool that failed to launch or timed out
FailedProbe(p) == p.kind \in {"timeout", "nolaunch"}

\* systemd-detect-virt printed a token other than "none"
Definitive1 ==
    host.sdv.kind = "exit" /\ Strip(host.sdv.stdout) \notin { << >>, <<"n","o","n","e">> }

\* systemd-detect-virt failed to launch, timed out or printed nothing or "none"
Inconclusive1 ==
    \/ FailedProbe(host.sdv)
    \/ host.sdv.kind = "exit" /\ Strip(host.sdv.stdout) \in { << >>, <<"n","o","n","e">> }

\* the kernel log names a hypervisor
Definitive2 ==
    /\ host.dmesg.kind = "exit"
    /\ ContainsAny(Lower(host.dmesg.stdout), { <<"v","m","w","a","r","e">>, <<"v","i","r","t","u","a","l","b","o","x">>, <<"h","y","p","e","r","v","i","s","o","r"," ","d","e","t","e","c","t","e","d">> })

\* dmesg failed to launch, timed out or printed nothing that names a hypervisor
Inconclusive2 ==
    \/ FailedProbe(host.dmesg)
    \/ host.dmesg.kind = "exit" /\ ~Definitive2

\* the lspci listing names virtual hardware
Definitive3 ==
    /\ host.lspci_vm.kind = "exit"
    /\ ContainsAny(Lower(host.lspci_vm.stdout), { <<"v","m","w","a","r","e">>, <<"v","i","r","t","u","a","l","b","o","x">>, <<"q","x","l">>, <<"v","i","r","t","i","o">> })

\* lspci failed to launch, timed out or listed no virtual hardware
Inconclusive3 ==
    \/ FailedProbe(host.lspci_vm)
    \/ host.lspci_vm.kind = "exit" /\ ~Definitive3

\* C5: detect_virtualization invokes systemd-detect-virt, dmesg and lspci in
\* that order and stops at the first definitive one: a definitive probe 1
\* means probes 2 and 3 are not invoked, a definitive probe 2 means probe 3
\* is not invoked.
C5_ProbesInOrderShortCircuit ==
    call.op = "detect_virtualization" =>
        /\ Len(Invoked) \in 1..3
        /\ Invoked = SubSeq(ProbeOrder, 1, Len(Invoked))
        /\ Definitive1 => Invoked = SubSeq(ProbeOrder, 1, 1)
        /\ (~Definitive1 /\ Definitive2) => Invoked = SubSeq(ProbeOrder, 1, 2)
        /\ Len(Invoked) = 3 => (~Definitive1 /\ ~Definitive2)

\* probe 1 named a hypervisor on a machine whose kernel log and lspci listing
\* name one too, and only probe 1 was invoked
C5_Witness ==
    /\ call.op = "detect_virtualization"
    /\ Definitive1 /\ Definitive2 /\ Definitive3
    /\ Len(Invoked) = 1

\* C6: a probe that fails to launch, times out or gives an empty or "none"
\* value is inconclusive: nothing is raised, nothing is recorded in the
\* ledger, the next probe is invoked, and three inconclusive probes give None.
C6_InconclusiveProbesFallThrough ==
    call.op = "detect_virtualization" =>
        /\ Inconclusive1 =>
              /\ call.raised = "none"
              /\ failed_operations = call.ledger_before
              /\ Len(Invoked) >= 2
              /\ Invoked[2] = ProbeOrder[2]
        /\ (Inconclusive1 /\ Inconclusive2) =>
              /\ Len(Invoked) = 3
              /\ Invoked[3] = ProbeOrder[3]
        /\ (Inconclusive1 /\ Inconclusive2 /\ Inconclusive3) => call.ret = None

\* probe 1 could not be launched, probe 2 timed out, probe 3 listed real
\* hardware only, and the call returned None
C6_Witness ==
    /\ call.op = "detect_virtualization"
    /\ host.sdv.kind = "nolaunch"
    /\ host.dmesg.kind = "timeout"
    /\ host.lspci_vm.kind = "exit" /\ host.lspci_vm.stdout # << >>
    /\ call.ret = None

-----------------------------------------------------------------------------
(* Claims about detect_gpu *)

\* the VM classification of this machine
VmClass == detect_virtualization(host).ret

\* the VMType the fixed table gives a systemd-detect-virt token
TableKind(token) ==
    CASE token = <<"v","m","w","a","r","e">> -> "VMWARE"
      [] token = <<"k","v","m">> -> "KVM"
      [] token = <<"q","e","m","u">> -> "QEMU"
      [] token \in { <<"v","i","r","t","u","a","l","b","o","x">>, <<"o","r","a","c","l","e">> } -> "VIRTUALBOX"
      [] token = <<"m","i","c","r","o","s","o","f","t">> -> "HYPERV"
      [] token = <<"x","e","n">> -> "XEN"
      [] token = <<"p","a","r","a","l","l","e","l","s">> -> "PARALLELS"
      [] token \in { << >>, <<"n","o","n","e">> } -> "NONE"
      [] OTHER -> "OTHER"

\* C8: when the VM classification is not None, detect_gpu records the vendor
\* Virtual and invokes neither lspci nor glxinfo itself, whatever they would
\* print.
C8_VmShortCircuitsGpu ==
    (call.op = "detect_gpu" /\ VmClass # None) =>
        /\ call.raised = "none"
        /\ hardware_info.gpu_vendor = "VIRTUAL"
        /\ \A i \in 1..Len(Invoked) : Invoked[i].who # "detect_gpu"

\* a VM whose lspci and glxinfo would both name an NVIDIA GPU
C8_Witness ==
    /\ call.op = "detect_gpu"
    /\ VmClass # None
    /\ host.lspci_gpu.kind = "exit"
    /\ Contains(Lower(host.lspci_gpu.stdout), <<"n","v","i","d","i","a">>)
    /\ host.glxinfo.kind = "exit" /\ host.glxinfo.code = 0
    /\ Contains(Lower(host.glxinfo.stdout), <<"n","v","i","d","i","a">>)

\* C9 (as claimed): the token of systemd-detect-virt is mapped by the fixed
\* table, an unrecognized token is kept as Other, and whenever detection
\* returns a classification other than None the recorded
\* hardware_info.vm_type is not NONE either.
C9_VmKindRecorded ==
    (call.op = "detect_gpu" /\ call.raised = "none") =>
        /\ Definitive1 =>
              hardware_info.vm_type = TableKind(Lower(Strip(host.sdv.stdout)))
        /\ VmClass # None => hardware_info.vm_type # "NONE"

\* vendor matching ran in the last call: no VM, lspci and glxinfo answered
VendorMatched ==
    /\ call.op = "detect_gpu"
    /\ call.raised = "none"
    /\ VmClass = None
    /\ host.lspci_gpu.kind = "exit"

\* the text vendor matching reads: the GPU lines and the renderer line
GpuInfo == Lower(JoinSpace(gpu_lines_of(host.lspci_gpu.stdout)))

GlInfo == gl_probe(host).ret

\* marker m is in the device text or in the renderer text
Has(m) == Contains(GpuInfo, m) \/ Contains(GlInfo, m)

Level1 == \E m \in { <<"v","m","w","a","r","e">>, <<"v","i","r","t","u","a","l","b","o","x">>, <<"q","x","l">>, <<"v","i","r","t","i","o">>, <<"s","v","g","a","3","d">> } : Has(m)

Level2 == Has(<<"n","v","i","d","i","a">>)

Level3 == \E m \in { <<"a","m","d">>, <<"r","a","d","e","o","n">>, <<"a","t","i">> } : Has(m)

Level4 ==
    /\ Contains(GpuInfo, <<"i","n","t","e","l">>)
    /\ \E q \in { <<"g","r","a","p","h","i","c","s">>, <<"h","d">>, <<"i","r","i","s">>, <<"u","h","d">>, <<"a","r","c">> } : Contains(GpuInfo, q)

\* C10: vendor matching has a fixed precedence, the first matching level
\* wins: virtualization markers, nvidia, amd/radeon/ati, then intel with a
\* qualifier in the device text.  Text with an AMD and an Intel marker is
\* classified AMD, text with an nvidia and an AMD marker Nvidia.
C10_VendorPrecedence ==
    VendorMatched =>
        /\ Level1 => hardware_info.gpu_vendor = "VIRTUAL"
        /\ (~Level1 /\ Level2) => hardware_info.gpu_vendor = "NVIDIA"
        /\ (~Level1 /\ ~Level2 /\ Level3) => hardware_info.gpu_vendor = "AMD"
        /\ (~Level1 /\ ~Level2 /\ ~Level3 /\ Level4) => hardware_info.gpu_vendor = "INTEL"
        /\ (~Level1 /\ ~Level2 /\ ~Level3 /\ ~Level4) => hardware_info.gpu_vendor = "UNKNOWN"
        /\ (~Level1 /\ ~Level2 /\ Has(<<"i","n","t","e","l">>) /\ \E m \in { <<"a","m","d">>, <<"r","a","d","e","o","n">> } : Has(m)) =>
              /\ hardware_info.gpu_vendor = "AMD"
              /\ call.ret = <<"a","m","d">>
        /\ (~Level1 /\ Has(<<"n","v","i","d","i","a">>) /\ \E m \in { <<"a","m","d">>, <<"r","a","d","e","o","n">> } : Has(m)) =>
              /\ hardware_info.gpu_vendor = "NVIDIA"
              /\ call.ret = <<"n","v","i","d","i","a">>

\* a listing with an NVIDIA line and an AMD line, classified Nvidia
C10_Witness ==
    /\ VendorMatched
    /\ Contains(GpuInfo, <<"n","v","i","d","i","a">>)
    /\ Contains(GpuInfo, <<"r","a","d","e","o","n">>)
    /\ GlInfo = << >>
    /\ call.ret = <<"n","v","i","d","i","a">>

-----------------------------------------------------------------------------
(* Claims about run() *)

\* the positions of effects where the machine was changed: a command that
\* run_command spawned, or a file or directory a step created, wrote,
\* re-owned or removed itself
Mutations == {i \in 1..Len(effects) : effects[i].kind \in {"spawn", "fs"}}

\* C3: in a run with dry_run true no step of run() changes the filesystem,
\* the package database or system configuration: no command is spawned, no
\* file or directory is created, written, re-owned or removed, and the state
\* file stays as it was found; only probes, prompts and requests occur.
C3_DryRunChangesNothing ==
    (pc # "idle" /\ config.dry_run) => (Mutations = {} /\ state_file = host.state_file)

\* the positions of effects where the first virtualization probe was invoked
VirtualizationDetections ==
    {i \in 1..Len(effects) : effects[i] = Probe("detect_virtualization", "systemd-detect-virt")}

\* C7: virtualization detection is performed at most once per run: the
\* first probe of detect_virtualization is invoked at most once between the
\* start of run() and its end.
C7_VirtualizationDetectedOnce ==
    pc # "idle" => Cardinality(VirtualizationDetections) <= 1

-----------------------------------------------------------------------------
(* Claims about the install decision *)

\* the last call was prompt_install_or_update and it returned
Decided == call.op = "prompt_install_or_update" /\ call.raised = "none"

\* C11: whenever prompt_install_or_update has inspected a package, its
\* update_available is true exactly when the component is installed, the
\* installed and the available version are both present, and the two
\* strings are unequal; so it is never true when a version is absent.
C11_UpdateAvailableIffVersionsDiffer ==
    (Decided /\ ~config.auto_yes) =>
        (call.ret.update_available <=>
            /\ call.ret.is_installed
            /\ Truthy(call.ret.current_version)
            /\ Truthy(call.ret.available_version)
            /\ call.ret.current_version # call.ret.available_version)

\* the probes the last call made
ProbesOfCall ==
    { effects[i].who : i \in { j \in (Len(call.effects_before) + 1)..Len(effects) :
                                 effects[j].kind = "probe" } }

\* the last call asked Flatpak something
FlatpakQueried == ProbesOfCall \cap {"is_flatpak_installed", "get_flatpak_version"} # {}

\* dpkg -l ran, exited 0 and lists the package as ii
NativeReportsInstalled ==
    /\ Truthy(host.package_name)
    /\ host.q.dpkg_l.kind = "exit" /\ host.q.dpkg_l.code = 0
    /\ Contains(host.q.dpkg_l.stdout, <<"i","i">>)

\* C12: Flatpak is queried only if a flatpak_id is given and the native
\* backend reported not installed; when the native backend reports
\* installed, Flatpak is never queried and the state (installed, with the
\* version dpkg-query gives) is the native one.
C12_SandboxOnlyAfterNativeMiss ==
    (Decided /\ ~config.auto_yes) =>
        /\ FlatpakQueried => (Truthy(host.flatpak_id) /\ ~NativeReportsInstalled)
        /\ NativeReportsInstalled =>
              /\ ~FlatpakQueried
              /\ call.ret.is_installed
              /\ call.ret.current_version = get_package_version(host.q.dpkg_query)

\* the package is installed natively and Flatpak lists the application too
C12_Witness ==
    /\ Decided /\ ~config.auto_yes
    /\ NativeReportsInstalled
    /\ Truthy(host.flatpak_id)
    /\ host.q.flatpak_list.kind = "exit" /\ Contains(host.q.flatpak_list.stdout, host.flatpak_id)
    /\ "is_package_installed" \in ProbesOfCall

\* the last call was one of the five package queries, and its tool could
\* not be started or did not answer in time
QueryFailed ==
    call.op \in PackageQueries /\ call.proc.kind \in {"timeout", "nolaunch"}

\* C13: a package query whose tool fails to launch or times out returns
\* not installed (the two membership queries) or no version (the three
\* version queries), and no exception reaches its caller.
C13_FailedQueryIsNegative ==
    QueryFailed =>
        /\ call.raised = "none"
        /\ call.op \in {"is_package_installed", "is_flatpak_installed"} => call.ret = FALSE
        /\ call.op \in {"get_package_version", "get_available_version",
                         "get_flatpak_version"} => call.ret = None

\* apt-cache policy timed out under get_available_version
C13_Witness ==
    /\ QueryFailed
    /\ call.op = "get_available_version"
    /\ call.proc = TimeoutProc
    /\ Len(effects) = 1

\* the last call was a decision: prompt_install_or_update, or confirm as
\* the installers call it (`flag or self.confirm(..)`)
DecisionMade == call.op \in {"prompt_install_or_update", "confirm"} /\ call.raised = "none"

\* the calls of input() the last call made
ReadsOfCall ==
    { j \in (Len(call.effects_before) + 1)..Len(effects) : effects[j].kind = "input" }

\* the package is installed and no newer version is offered
InstalledAndCurrent ==
    /\ NativeReportsInstalled
    /\ host.q.dpkg_query = Printed(<<"1",".","0">>)
    /\ host.q.apt_cache = UsualTools.apt_cache

\* C14: with auto_yes the decision is Install for every package state and
\* for every value of dry_run, and no operator input is read.
C14_AutoYesInstallsUnasked ==
    (DecisionMade /\ config.auto_yes) =>
        (call.ret.ret = TRUE /\ ReadsOfCall = {})

\* -y without --dry-run, the package installed and current, the operator
\* about to type n
C14_Witness ==
    /\ Decided /\ config.auto_yes /\ ~config.dry_run
    /\ InstalledAndCurrent
    /\ host.inputs = <<Line(<<"n">>)>>
    /\ call.ret.ret = TRUE

DecidedInteractively == Decided /\ ~config.auto_yes /\ ~config.dry_run

\* an update is available: installed, both versions present and unequal
UpdateIsAvailable ==
    /\ call.ret.is_installed
    /\ Truthy(call.ret.current_version)
    /\ Truthy(call.ret.available_version)
    /\ call.ret.current_version # call.ret.available_version

\* the label that goes with the state
LabelOfState ==
    IF ~call.ret.is_installed THEN <<"Install ", "Steam", "?">>
    ELSE IF UpdateIsAvailable THEN <<"Update ", "Steam", "?">>
    ELSE <<"Reinstall ", "Steam", "?">>

\* the questions the last call put to the operator, one per input()
QuestionsOfCall == { effects[j].what : j \in ReadsOfCall }

\* how many inputs a single confirm() takes from the operator: the
\* unrecognised lines and the first answer, end of input or Ctrl-C
RECURSIVE ReadsOfOneConfirm(_)
ReadsOfOneConfirm(inputs) ==
    IF inputs = << >> THEN 1
    ELSE IF inputs[1].kind = "line"
            /\ Lower(inputs[1].text) \notin { <<"y">>, <<"y","e","s">>, <<"n">>, <<"n","o">> }
    THEN 1 + ReadsOfOneConfirm(Tail(inputs))
    ELSE 1

\* the operator's answer is y or yes, in any case
Affirmative ==
    LET last == host.inputs[Len(host.inputs)] IN
    /\ host.inputs # << >>
    /\ last.kind = "line"
    /\ Lower(last.text) \in { <<"y">>, <<"y","e","s">> }

\* C16: an interactive decision invokes confirm() exactly once, with the
\* label that goes with the state (not installed: install; installed with
\* an update available: update; installed without: reinstall), and is
\* Install when the answer is affirmative and Skip otherwise.
C16_InteractiveDecisionAsksOnce ==
    DecidedInteractively =>
        /\ QuestionsOfCall = {LabelOfState}
        /\ Cardinality(ReadsOfCall) = ReadsOfOneConfirm(host.inputs)
        /\ call.ret.ret = Affirmative

\* confirm() was reached in interactive mode, by itself or from
\* prompt_install_or_update
AskedInteractively ==
    /\ call.op \in {"prompt_install_or_update", "confirm"}
    /\ ~config.auto_yes /\ ~config.dry_run

\* what ends the operator's input is end of input or Ctrl-C
InputBreaksOff == host.inputs = << >> \/ host.inputs[Len(host.inputs)].kind # "line"

\* C17: confirm() asks again after every unrecognised line until it reads
\* y/yes or n/no; end of input or Ctrl-C during the read is a negative
\* answer to that prompt, and no exception reaches the caller, which goes
\* on with the next component.
C17_ConfirmReprompts ==
    AskedInteractively =>
        /\ Cardinality(ReadsOfCall) = ReadsOfOneConfirm(host.inputs)
        /\ call.raised = "none"
        /\ call.ret.ret = Affirmative
        /\ InputBreaksOff => call.ret.ret = FALSE

\* two unrecognised lines ("maybe", "y " with its trailing blank), then
\* Ctrl-C
C17_Witness ==
    /\ AskedInteractively
    /\ call.op = "confirm"
    /\ Len(host.inputs) = 3
    /\ host.inputs[3] = Interrupt
    /\ Cardinality(ReadsOfCall) = 3
    /\ call.ret.ret = FALSE
    /\ call.raised = "none"

-----------------------------------------------------------------------------
(* Claims about interrupts and the session state of run() *)

\* Ctrl-C was pressed at a blocking point of the run
InterruptDelivered == \E i \in 1..Len(faults) : faults[i].what = "interrupt"

\* C18: an interrupt delivered at any blocking point of a run (a spawned
\* command, a detection or package probe, a confirm() read) aborts the run
\* at once: no further step is taken and the state file is left as it was.
C18_InterruptAbortsRun ==
    InterruptDelivered =>
        (pc \in {"interrupted", "cancelled"} /\ state_file = host.state_file)

\* the components the operator was asked about by prompt_install_or_update
\* ("Install Steam?", "Update Steam?", "Reinstall Steam?": Steam), each
\* answer being a decision
DecidedComponents ==
    { effects[i].what[2] : i \in { j \in 1..Len(effects) :
                                     effects[j].kind = "input" /\ Len(effects[j].what) = 3 } }

\* C19: the decisions made for components during a run are recorded in
\* the session state, and the state file written at the end of the run
\* holds an entry under the name of each decided component.
C19_DecisionsRecorded ==
    (pc = "done" /\ ~config.dry_run) =>
        /\ state_file.exists
        /\ \A name \in DecidedComponents :
              name \in DOMAIN installation_state /\ name \in DOMAIN state_file.data

\* what save_installation_state did to the filesystem
StateFileWrites ==
    { i \in 1..Len(effects) :
        effects[i].kind = "fs" /\ effects[i].who = "save_installation_state" }

\* C20: in dry-run the session state is never written to the state file:
\* at every point of a dry-run session, and after it, the file is what it
\* was before the session.
C20_DryRunKeepsStateFile ==
    (pc # "idle" /\ config.dry_run) =>
        (state_file = host.state_file /\ StateFileWrites = {})

\* a dry run that went through save_installation_state, on a machine that
\* has a state file from an earlier run
C20_Witness ==
    /\ config.dry_run
    /\ pc = "done"
    /\ host.state_file.exists
    /\ installation_state # host.state_file.data
    /\ installation_state.last_updated = host.now
    /\ state_file = host.state_file

-----------------------------------------------------------------------------
(* Claims about the state file across sessions *)

\* the keys a session produces
ProducedKeys == {"last_updated", "distro", "version"}

\* a session that is not a dry run saves its state
Saves == pc = "loaded" /\ pc' = "idle" /\ ~config.dry_run

\* C21: when a session saves, every key of the earlier state file that
\* the session does not produce is in the new file unchanged, the keys it
\* produces have the session's values, reloading the new file gives the
\* session's state back, and the timestamp is strictly later than the one
\* of the earlier file.
C21_MergeAndRoundTrip ==
    [][Saves =>
        /\ \A k \in DOMAIN state_file.data \ ProducedKeys :
              k \in DOMAIN state_file'.data /\ state_file'.data[k] = state_file.data[k]
        /\ state_file'.data["distro"] = system_info.distro_name
        /\ state_file'.data["version"] = system_info.distro_version
        /\ state_file'.data["last_updated"] = host.now
        /\ load_installation_state(state_file') = installation_state'
        /\ (state_file.exists /\ "last_updated" \in DOMAIN state_file.data) =>
              state_file'.data["last_updated"][1] > state_file.data["last_updated"][1]
    ]_vars

-----------------------------------------------------------------------------
(* Claims about the order of run() *)

\* something went wrong in this run, and only in commands: each time a
\* command run by run_command exited non-zero, timed out or could not be
\* started
OnlyCommandsFailed ==
    /\ faults # << >>
    /\ \A i \in 1..Len(faults) :
          faults[i].hit = "command" /\ faults[i].what \in {"fail", "timeout", "nolaunch"}

\* C22: a command that fails does not stop the session: the run is not
\* ended by an error, so every step after it is taken in run() order, up
\* to save_installation_state and final_steps.
C22_FailureDoesNotStopRun ==
    (OnlyCommandsFailed /\ host.os_release.exists) =>
        pc \notin {"error", "interrupted", "cancelled"}

\* the first command of the run timed out, and the run went on to install
\* things, saved its state and ended
C22_Witness ==
    /\ OnlyCommandsFailed
    /\ faults[1].step = "clean_broken_repos" /\ faults[1].what = "timeout"
    /\ pc = "done"
    /\ state_file.exists /\ ~host.state_file.exists
    /\ \E i \in 1..Len(effects) :
          effects[i].kind = "spawn" /\ effects[i].what = <<"Installing Steam">>


-----------------------------------------------------------------------------
(* Claims about the driver step of run() *)

\* the hypervisors of the SUPPORTED HARDWARE list, as VMType members
SupportedHypervisors ==
    { "VMWARE", "VIRTUALBOX", "KVM", "QEMU", "HYPERV", "XEN", "PARALLELS" }

\* the operator was asked whether to install guest tools
GuestToolsAsked ==
    \E i \in 1..Len(effects) :
        /\ effects[i].kind = "input"
        /\ Len(effects[i].what) > 2
        /\ effects[i].what[1] = "Install "
        /\ effects[i].what[Len(effects[i].what)] = " guest tools for better graphics performance?"

\* the description of the command each hypervisor's installer starts with
GuestToolsProcedure(vm) ==
    CASE vm = "VMWARE" -> <<"Installing VMware guest tools and graphics">>
      [] vm = "VIRTUALBOX" -> <<"Installing VirtualBox guest additions">>
      [] vm \in {"KVM", "QEMU"} -> <<"Installing KVM/QEMU guest tools">>
      [] vm = "HYPERV" -> <<"Installing Hyper-V guest tools">>
      [] vm = "XEN" -> <<"Installing Xen guest tools">>
      [] OTHER -> <<"Installing Parallels guest tools">>

\* the driver step has just been taken
DriverStepTaken == pc = "install_essential_packages"

\* C23: on a host classified as one of the supported hypervisors the driver
\* step reaches the guest-tools decision: without --vm-tools an interactive
\* session asks the guest-tools question, and with --vm-tools (a positive
\* decision) the installer of that hypervisor is started.
C23_SupportedHypervisorGetsGuestTools ==
    (DriverStepTaken /\ hardware_info.vm_type \in SupportedHypervisors /\ faults = << >>) =>
        /\ (~config.install_vm_tools /\ ~config.dry_run /\ ~config.auto_yes) => GuestToolsAsked
        /\ (config.install_vm_tools /\ ~config.dry_run) =>
              \E i \in 1..Len(effects) :
                  /\ effects[i].kind = "spawn"
                  /\ effects[i].what = GuestToolsProcedure(hardware_info.vm_type)


\* the driver procedure a command belongs to, by its description
DriverProcedure(description) ==
    CASE description \in { <<"Installing VMware guest tools and graphics">>,
                           <<"Installing VirtualBox guest additions">>,
                           <<"Installing KVM/QEMU guest tools">>,
                           <<"Installing Hyper-V guest tools">>,
                           <<"Installing Xen guest tools">> } -> "guest-tools"
      [] description \in { <<"Installing driver manager">>,
                           <<"Installing recommended NVIDIA drivers">>,
                           <<"Installing NVIDIA utilities">> } -> "nvidia"
      [] description = <<"Installing AMD Mesa and Vulkan drivers">> -> "amd"
      [] description = <<"Installing Intel graphics drivers">> -> "intel"
      [] description = <<"Installing generic VM graphics drivers">> -> "generic"
      [] OTHER -> "none"

\* the driver procedures that have started a command in this run
ProceduresRun ==
    { DriverProcedure(effects[i].what) :
        i \in { n \in 1..Len(effects) : effects[n].kind = "spawn" } } \ {"none"}

\* the values of gpu_type that select the guest-tools branch
GuestClasses ==
    { <<"v","m","w","a","r","e">>, <<"v","i","r","t","u","a","l","b","o","x">>,
      <<"k","v","m","/","q","e","m","u">>, <<"v","m">> }

\* C28: the driver step is selected by the detected class alone: at most
\* one driver procedure runs in a run, the NVIDIA, AMD and Intel procedures
\* only for the class of that name, the guest-tools procedures only for a
\* guest class and the generic one only for a guest class or 'generic';
\* so a flag for another class installs nothing.
C28_DriverSelectedByClass ==
    /\ Cardinality(ProceduresRun) <= 1
    /\ "nvidia" \in ProceduresRun => gpu_type = <<"n","v","i","d","i","a">>
    /\ "amd" \in ProceduresRun => gpu_type = <<"a","m","d">>
    /\ "intel" \in ProceduresRun => gpu_type = <<"i","n","t","e","l">>
    /\ "guest-tools" \in ProceduresRun => gpu_type \in GuestClasses
    /\ "generic" \in ProceduresRun =>
          gpu_type \in GuestClasses \cup {<<"g","e","n","e","r","i","c">>}

\* --amd and --vm-tools on a machine whose class is nvidia: the run is over
\* and only the NVIDIA procedure has run
C28_Witness ==
    /\ pc = "done"
    /\ config.install_amd_drivers /\ config.install_vm_tools
    /\ gpu_type = <<"n","v","i","d","i","a">>
    /\ ProceduresRun = {"nvidia"}

\* the driver step is taken with the class 'generic'
GenericDriverStep ==
    /\ pc = "install_drivers"
    /\ gpu_type = <<"g","e","n","e","r","i","c">>
    /\ pc' = "install_essential_packages"

\* C29: with the class 'generic' the driver step runs the generic graphics
\* installation and nothing else: it reads no answer from the operator,
\* whatever the flags and the mode, and outside dry-run starts the command.
C29_GenericInstallsUnasked ==
    [][GenericDriverStep =>
          effects' = effects \o (IF config.dry_run THEN << >>
                                 ELSE <<Spawn(<<"Installing generic VM graphics drivers">>)>>)]_vars

\* an interactive session without --vm-tools has just taken the driver step
\* with the class 'generic': the last thing it did is start the generic
\* installation, and what it did just before was not a read of an answer
C29_Witness ==
    /\ DriverStepTaken
    /\ gpu_type = <<"g","e","n","e","r","i","c">>
    /\ ~config.auto_yes /\ ~config.dry_run /\ ~config.install_vm_tools
    /\ effects[Len(effects)] = Spawn(<<"Installing generic VM graphics drivers">>)
    /\ effects[Len(effects) - 1].kind # "input"

-----------------------------------------------------------------------------
(* Claims about the end of run() *)

\* final_steps has been taken: run() returned, or Ctrl-C ended it there
FinalStepsTaken ==
    \/ pc = "done"
    \/ /\ pc = "interrupted"
       /\ faults # << >>
       /\ faults[Len(faults)].step = "final_steps"

\* the place in effects where save_installation_state wrote STATE_FILE
StateFileWritten(i) ==
    effects[i] = [kind |-> "fs", who |-> "save_installation_state",
                  what |-> <<"write", "STATE_FILE">>]

\* C30: with --yes and without --dry-run, a run that takes final_steps
\* starts the reboot command as the last thing it does, having read no
\* answer from the operator, and after save_installation_state has written
\* the session state to STATE_FILE.
C30_RebootLastAndAfterSave ==
    (config.auto_yes /\ ~config.dry_run /\ FinalStepsTaken) =>
        /\ effects # << >>
        /\ effects[Len(effects)] = Spawn(<<"Rebooting system">>)
        /\ \A i \in 1..Len(effects) : effects[i].kind # "input"
        /\ \E i \in 1..(Len(effects) - 1) : StateFileWritten(i)
        /\ state_file = [exists |-> TRUE, data |-> installation_state]

\* a --yes run on a machine without a state file is over: the file is
\* there, and the last thing the run did is start the reboot
C30_Witness ==
    /\ config.auto_yes /\ ~config.dry_run
    /\ pc = "done"
    /\ ~host.state_file.exists /\ state_file.exists
    /\ effects[Len(effects)] = Spawn(<<"Rebooting system">>)
    /\ \E i \in 1..(Len(effects) - 1) : StateFileWritten(i)

-----------------------------------------------------------------------------
(* Claims about the failure ledger over time *)

\* C24: the failure ledger is append-only: every step leaves it as it was or
\* extends it at the end, so the ledger of every earlier state is a prefix
\* of the ledger of every later one.
C24_LedgerAppendOnly ==
    [][/\ Len(failed_operations') >= Len(failed_operations)
       /\ SubSeq(failed_operations', 1, Len(failed_operations)) = failed_operations]_vars

\* a second failure was appended behind the first
C24_Witness ==
    /\ Len(failed_operations) = 2
    /\ call.ledger_before = <<failed_operations[1]>>
    /\ failed_operations[1] # failed_operations[2]


-----------------------------------------------------------------------------
(* Claims about the hardware scan of detect_gpu *)

\* the line names a display class: it holds vga, 3d or display
HasMarker(line) ==
    \/ Contains(line, <<"v","g","a">>)
    \/ Contains(line, <<"3","d">>)
    \/ Contains(line, <<"d","i","s","p","l","a","y">>)

\* the lines of a device listing that hold a marker, in order
MarkerLines(listing) == SelectSeq(SplitLines(Lower(listing)), HasMarker)

\* detect_gpu() has been called once, found no virtual machine, asked lspci
\* for the device listing and got it
ListingScanned ==
    /\ call.op = "detect_gpu"
    /\ call.raised = "none"
    /\ ncalls = 1
    /\ host.lspci_gpu.kind = "exit"
    /\ \E i \in 1..Len(effects) : effects[i] = Probe("detect_gpu", "lspci")

\* what detect_gpu() makes of this machine when its lspci prints l
WithListing(l) ==
    detect_gpu([host EXCEPT !.lspci_gpu = Printed(l)],
               [gpu_vendor |-> "UNKNOWN", vm_type |-> "NONE"])

\* C25: the class detect_gpu() gives depends on the device listing only
\* through its lines with a marker: with the same glxinfo, a listing with
\* the same marker lines and any other lines without a marker gives the
\* same return value and the same vendor.
C25_UnmarkedLinesDoNotMatter ==
    ListingScanned =>
        Then(MarkerLines(host.lspci_gpu.stdout), LAMBDA marked:
            \A l \in Listings :
                MarkerLines(l) = marked =>
                    Then(WithListing(l), LAMBDA r:
                        <<r.raised, r.ret, r.hardware_info.gpu_vendor>>
                            = <<"none", call.ret, hardware_info.gpu_vendor>>))

\* an Ethernet adapter of Intel stands in the listing next to a display
\* controller of another vendor, and the class is not Intel
C25_Witness ==
    /\ ListingScanned
    /\ hardware_info.vm_type = "NONE"
    /\ Contains(Lower(host.lspci_gpu.stdout), <<"e","t","h","e","r","n","e","t"," ","c","o","n","t","r","o","l","l","e","r",":"," ","i","n","t","e","l">>)
    /\ Len(MarkerLines(host.lspci_gpu.stdout)) = 1
    /\ call.ret = <<"g","e","n","e","r","i","c">>
    /\ hardware_info.gpu_vendor = "UNKNOWN"

\* detect_gpu() has been called once, found no virtual machine and asked
\* lspci for the device listing
ProbeAsked ==
    /\ call.op = "detect_gpu"
    /\ ncalls = 1
    /\ \E i \in 1..Len(effects) : effects[i] = Probe("detect_gpu", "lspci")

\* the text the vendor levels are matched against
ScanText == Lower(JoinSpace(MarkerLines(host.lspci_gpu.stdout)))

\* no vendor level matches the marker lines or the renderer line
NoLevelMatches ==
    Then(ScanText, LAMBDA gpu_info:
    Then(gl_probe(host).ret, LAMBDA gl_info:
        /\ \A v \in VmIndicators \cup {<<"n","v","i","d","i","a">>} \cup AmdIndicators :
              ~Contains(gpu_info, v) /\ ~Contains(gl_info, v)
        /\ ~(Contains(gpu_info, <<"i","n","t","e","l">>) /\ ContainsAny(gpu_info, IntelGpuTerms))))

\* C26: when no vendor level matches, detect_gpu() returns 'generic' with
\* vendor UNKNOWN if the listing has a line with a marker and 'unknown' with
\* vendor UNKNOWN if it has none; when lspci times out or cannot be started,
\* detect_gpu() also returns 'unknown' with vendor UNKNOWN and raises nothing.
C26_UnknownGenericOrNone ==
    ProbeAsked =>
        /\ host.lspci_gpu.kind \in {"timeout", "nolaunch"} =>
              /\ call.raised = "none"
              /\ call.ret = <<"u","n","k","n","o","w","n">>
              /\ hardware_info.gpu_vendor = "UNKNOWN"
        /\ (host.lspci_gpu.kind = "exit" /\ NoLevelMatches) =>
              /\ call.raised = "none"
              /\ hardware_info.gpu_vendor = "UNKNOWN"
              /\ call.ret = IF MarkerLines(host.lspci_gpu.stdout) # << >>
                            THEN <<"g","e","n","e","r","i","c">>
                            ELSE <<"u","n","k","n","o","w","n">>

\* a Matrox display controller: a line with a marker and no vendor level
C26_Witness ==
    /\ ProbeAsked
    /\ host.lspci_gpu.kind = "exit"
    /\ NoLevelMatches
    /\ Len(MarkerLines(host.lspci_gpu.stdout)) = 1
    /\ call.ret = <<"g","e","n","e","r","i","c">>
    /\ hardware_info.gpu_vendor = "UNKNOWN"

\* a line with a marker names the class 'VGA compatible controller'
VgaClassLine ==
    \E i \in 1..Len(MarkerLines(host.lspci_gpu.stdout)) :
        Contains(MarkerLines(host.lspci_gpu.stdout)[i],
                 <<"v","g","a"," ","c","o","m","p","a","t","i","b","l","e"," ","c","o","n","t","r","o","l","l","e","r">>)

\* neither the marker lines nor the renderer line hold a marker of a
\* virtual GPU or of NVIDIA
NoVirtualOrNvidiaMarker ==
    Then(ScanText, LAMBDA gpu_info:
    Then(gl_probe(host).ret, LAMBDA gl_info:
        \A v \in VmIndicators \cup {<<"n","v","i","d","i","a">>} :
            ~Contains(gpu_info, v) /\ ~Contains(gl_info, v)))

=============================================================================
